---- MODULE Spec2Model ----
(***************************************************************************)
(* A model of lib/templatesimplifier.cpp (cppcheck): the template          *)
(* simplification pass over a linked token list.                           *)
(*                                                                         *)
(* A token is a record [id, str, kind, link, fl]: id is the identity of    *)
(* the Token object (what a Token* points to), link the id of the matching *)
(* bracket (0: none), kind the token class that Token::str() derives from  *)
(* the first character, fl the unsigned/signed/long qualifier flags.  The  *)
(* token list is a sequence of such records; a Token* held in a list or in *)
(* a local is an id, a cursor inside one function an index (0: null).      *)
(***************************************************************************)
EXTENDS Integers, Sequences, FiniteSets, TLC

\* ------------------------------------------------------------------ bounds
\* number of code fragments an input token list is made of
MaxFrags == 2
\* number of runs of simplifyTemplates on one list (the second is the re-run)
MaxRuns == 2
\* largest magnitude of a number the numeric folder reads or writes
MaxNum == 128
\* removeTemplate is given declarations of up to this many tokens behind the
\* header
MaxBody == 4
\* the arguments of a use site given to cleanupAfterSimplify
MaxArgs == 2
\* the numbers of an expression given to simplifyNumericCalculations
MaxOperand == 2

\* ----------------------------------------------------------- program constant
\* the re-scan cap of simplifyTemplateInstantiations (recursiveCount > 100)
MaxRecursive == 100

\* ------------------------------------------------------------------ lexemes
Digits == <<"0", "1", "2", "3", "4", "5", "6", "7", "8", "9">>

RECURSIVE NatToStr(_)
\* MathLib::toString of a non-negative integer
NatToStr(n) == IF n < 10 THEN Digits[n + 1]
               ELSE NatToStr(n \div 10) \o Digits[(n % 10) + 1]

\* MathLib::toString
IntToStr(n) == IF n < 0 THEN "-" \o NatToStr(0 - n) ELSE NatToStr(n)

NumRange == (0 - MaxNum) .. MaxNum

\* the lexemes that are numbers (Token::isNumber)
NumStrs == {IntToStr(n) : n \in NumRange}

\* MathLib::toLongNumber
StrToInt(x) == CHOOSE n \in NumRange : IntToStr(n) = x

\* the lexemes of the inputs that start with a letter (Token::isName)
NameStrs == {"template", "class", "struct", "typename", "int", "char", "return",
             "namespace", "explicit", "const", "union", "delete", "public",
             "private", "protected", "operator",
             "void", "T", "U", "N", "A", "B", "V", "S", "P", "R", "X", "NS",
             "f", "g", "h", "x", "y", "z", "a", "b", "d", "e", "m", "n", "p", "r", "v", "w",
             "F", "s"}

KindOf(x) == IF x \in NameStrs THEN "name"
             ELSE IF x \in NumStrs THEN "num"
             ELSE "op"

\* ------------------------------------------------------- Token primitives
Null == 0

Valid(s, i) == i \in 1..Len(s)

\* Token::next / Token::previous / Token::tokAt on a cursor
Nx(s, i) == IF Valid(s, i) /\ i < Len(s) THEN i + 1 ELSE Null
Pv(s, i) == IF Valid(s, i) /\ i > 1 THEN i - 1 ELSE Null
At(s, i, k) == IF Valid(s, i) /\ Valid(s, i + k) THEN i + k ELSE Null

\* Token::str / Token::strAt: the empty string for a null token
Str(s, i) == IF Valid(s, i) THEN s[i].str ELSE ""
StrAt(s, i, k) == Str(s, At(s, i, k))

IsName(s, i) == Valid(s, i) /\ s[i].kind = "name"
IsNumber(s, i) == Valid(s, i) /\ s[i].kind = "num"
\* %var%: any name;  %type%: a name that is not "delete" (no varId is set yet)
IsVar(s, i) == IsName(s, i)
IsType(s, i) == IsName(s, i) /\ s[i].str # "delete"
\* one of the literal alternatives
IsOneOf(s, i, set) == Valid(s, i) /\ s[i].str \in set

\* the cursor of the token object id (0 when the object was deleted)
Pos(s, id) == IF \E i \in 1..Len(s) : s[i].id = id
              THEN CHOOSE i \in 1..Len(s) : s[i].id = id
              ELSE Null

IdAt(s, i) == IF Valid(s, i) THEN s[i].id ELSE Null

\* Token::link as a cursor
Link(s, i) == IF Valid(s, i) /\ s[i].link # 0 THEN Pos(s, s[i].link) ELSE Null

\* the list without the tokens at cursors lo..hi
Cut(s, lo, hi) == IF lo > hi THEN s
                  ELSE SubSeq(s, 1, lo - 1) \o SubSeq(s, hi + 1, Len(s))

\* Token::eraseTokens(begin, end): deletes the tokens strictly between begin
\* and end; a null end deletes to the end of the list
EraseTokens(s, b, e) ==
    IF ~Valid(s, b) \/ b = e THEN s
    ELSE IF Valid(s, e) /\ e > b THEN Cut(s, b + 1, e - 1)
    ELSE Cut(s, b + 1, Len(s))

\* Token::deleteNext(n)
DeleteNext(s, i, n) ==
    IF ~Valid(s, i) THEN s
    ELSE Cut(s, i + 1, IF i + n > Len(s) THEN Len(s) ELSE i + n)

\* the link of the partner of the bracket at cursor j now names object id
Relink(s, j, id) ==
    LET p == Link(s, j)
    IN IF p = Null THEN s ELSE [s EXCEPT ![p].link = id]

\* Token::deleteThis: the object takes over the content of its successor, which
\* is deleted; the last token takes over its predecessor instead; a token alone
\* (or last of two) is only emptied
DeleteThis(s, i) ==
    IF ~Valid(s, i) THEN s
    ELSE IF i < Len(s)
    THEN LET r == Relink(s, i + 1, s[i].id)
         IN Cut([r EXCEPT ![i] = [r[i + 1] EXCEPT !.id = s[i].id]], i + 1, i + 1)
    ELSE IF i > 2
    THEN LET r == Relink(s, i - 1, s[i].id)
         IN Cut([r EXCEPT ![i] = [r[i - 1] EXCEPT !.id = s[i].id]], i - 1, i - 1)
    ELSE [s EXCEPT ![i].str = "", ![i].kind = "op", ![i].link = 0]

\* a new Token object
NewTok(id, x, fl) == [id |-> id, str |-> x, kind |-> KindOf(x), link |-> 0, fl |-> fl]

\* Token::str(name) on a name token: the kind stays that of its first character
SetStr(s, i, x, k) == [s EXCEPT ![i].str = x, ![i].kind = k]

\* Token::createMutualLinks
CreateMutualLinks(s, i, j) == [s EXCEPT ![i].link = s[j].id, ![j].link = s[i].id]

\* Token::insertToken: a new token after cursor i
InsertToken(s, i, t) == SubSeq(s, 1, i) \o <<t>> \o SubSeq(s, i + 1, Len(s))

\* the first and the last cursor of a set of cursors, null for the empty set
FirstIn(c) == IF c = {} THEN Null ELSE CHOOSE j \in c : \A k \in c : j <= k
LastIn(c) == IF c = {} THEN Null ELSE CHOOSE j \in c : \A k \in c : k <= j

\* Token::findsimplematch(tok, "x"): the first token at or after i with text x
FindStr(s, i, x) == IF ~Valid(s, i) THEN Null
                    ELSE FirstIn({j \in i..Len(s) : s[j].str = x})

RECURSIVE FCB(_, _, _)
FCB(s, i, depth) ==
    IF ~Valid(s, i) THEN Null
    ELSE IF s[i].str \in {"{", "[", "("}
         THEN (IF Link(s, i) = Null THEN Null ELSE FCB(s, Link(s, i) + 1, depth))
    ELSE IF s[i].str \in {"}", "]", ")", ";"} THEN Null
    ELSE IF s[i].str = "<" THEN FCB(s, i + 1, depth + 1)
    ELSE IF s[i].str = ">"
         THEN (IF depth - 1 = 0 THEN i ELSE FCB(s, i + 1, depth - 1))
    ELSE IF s[i].str = ">>"
         THEN (IF depth - 1 = 0 \/ depth - 2 = 0 THEN i ELSE FCB(s, i + 1, depth - 2))
    ELSE FCB(s, i + 1, depth)

\* Token::findClosingBracket from a "<": the matching ">" (or ">>"), null when
\* there is none
FindClosingBracket(s, i) == IF Str(s, i) = "<" THEN FCB(s, i, 0) ELSE Null

\* ------------------------------------------------------ templateParameters
RECURSIVE SkipVarColon(_, _)
\* while (Token::Match(tok, "%var% ::")) tok = tok->tokAt(2);
SkipVarColon(s, i) ==
    IF IsVar(s, i) /\ Str(s, Nx(s, i)) = "::" THEN SkipVarColon(s, At(s, i, 2)) ELSE i

RECURSIVE SkipOneOf(_, _, _)
\* while (Token::Match(tok, "a|b|c")) tok = tok->next();
SkipOneOf(s, i, set) ==
    IF IsOneOf(s, i, set) THEN SkipOneOf(s, Nx(s, i), set) ELSE i

RECURSIVE SkipLinked(_, _)
\* while (tok && (tok->str() == "(" || tok->str() == "[")) tok = tok->link()->next();
SkipLinked(s, i) ==
    IF IsOneOf(s, i, {"(", "["})
    THEN (IF Link(s, i) = Null THEN Null ELSE SkipLinked(s, Nx(s, Link(s, i))))
    ELSE i

RECURSIVE TPClose(_, _, _, _)
\* the loop over ">" and ">>" that ends one argument: ret >= 0 is the value
\* returned, ret = -1 means the loop was left with the cursor tok
TPClose(s, tok, level, n) ==
    IF Str(s, tok) \notin {">", ">>"} THEN [ret |-> -1, tok |-> tok, level |-> level]
    ELSE IF level = 0 THEN [ret |-> n, tok |-> tok, level |-> level]
    ELSE IF Str(s, tok) = ">>" /\ level - 1 = 0 THEN [ret |-> n, tok |-> tok, level |-> 0]
    ELSE LET lv == IF Str(s, tok) = ">>" THEN level - 2 ELSE level - 1
             t == SkipOneOf(s, Nx(s, tok), {"*", "&"})
         IN IF t = Null THEN [ret |-> 0, tok |-> Null, level |-> lv]
            ELSE TPClose(s, t, lv, n)

\* "skip const", "skip struct/union", "Skip '&'" ("& ::| %var%"), "skip std::"
SkipConst(s, tok) == IF Str(s, tok) = "const" THEN Nx(s, tok) ELSE tok
SkipStructUnion(s, tok) == IF IsOneOf(s, tok, {"struct", "union"}) THEN Nx(s, tok) ELSE tok
SkipAmp(s, tok) ==
    IF Str(s, tok) = "&" /\
       (IsVar(s, Nx(s, tok)) \/ (Str(s, Nx(s, tok)) = "::" /\ IsVar(s, At(s, tok, 2))))
    THEN Nx(s, tok) ELSE tok
SkipColons(s, tok) == IF Str(s, tok) = "::" THEN Nx(s, tok) ELSE tok

\* the cursor of the "num/type" of the argument that starts at cursor tok
TPValue(s, tok) ==
    SkipVarColon(s, SkipColons(s, SkipAmp(s, SkipStructUnion(s, SkipConst(s, tok)))))

\* the cursor after the num/type at cursor tok, its "* / const" and its
\* "Function pointer or prototype.."
TPAfterValue(s, tok) == SkipLinked(s, SkipOneOf(s, Nx(s, tok), {"*", "&", "const"}))

RECURSIVE TPLoop(_, _, _, _)
\* the end of one turn of the while (tok) loop: c is what the loop over ">"
\* and ">>" left
TPNext(s, c, n) ==
    IF c.ret >= 0 THEN c.ret
    ELSE IF Str(s, c.tok) # "," THEN TPLoop(s, c.tok, c.level, n)
    ELSE TPLoop(s, Nx(s, c.tok), c.level, IF c.level = 0 THEN n + 1 ELSE n)

\* "inner template" and ",/>" with the cursor tok after the value
TPInner(s, tok, level, n) ==
    IF tok = Null THEN 0
    ELSE IF s[tok].str # "<" THEN TPNext(s, TPClose(s, tok, level, n), n)
    ELSE IF Nx(s, tok) = Null THEN 0
    ELSE TPNext(s, TPClose(s, Nx(s, tok), level + 1, n), n)

\* "num/type .." with the cursor tok on the value
TPCheckValue(s, tok, level, n) ==
    IF tok = Null THEN 0
    ELSE IF ~IsNumber(s, tok) /\ ~IsName(s, tok) THEN 0
    ELSE TPInner(s, TPAfterValue(s, tok), level, n)

\* one turn of the while (tok) loop of templateParameters
TPLoop(s, tok, level, n) ==
    IF tok = Null THEN 0 ELSE TPCheckValue(s, TPValue(s, tok), level, n)

\* TemplateSimplifier::templateParameters: the number of arguments of the
\* list opened by the "<" at cursor tok, 0 when it is no argument list
TemplateParameters(s, tok) ==
    IF tok = Null \/ Str(s, tok) # "<" THEN 0
    ELSE TPLoop(s, Nx(s, tok), 0, 1)

\* --------------------------------------------------------- expandSpecialized
\* Token::simpleMatch(tok, pattern) for a pattern given token by token
MatchSeq(s, i, pat) ==
    Valid(s, i) /\ \A k \in 1..Len(pat) : Str(s, At(s, i, k - 1)) = pat[k]

\* Token::findmatch(tok, pattern): the first cursor at or after i that matches
FindMatchSeq(s, i, pat) ==
    IF ~Valid(s, i) THEN Null
    ELSE FirstIn({j \in i..Len(s) : MatchSeq(s, j, pat)})

RECURSIVE SkipNamesAndStars(_, _)
\* while (tok2 && (tok2->isName() || tok2->str() == "*")) tok2 = tok2->next();
SkipNamesAndStars(s, i) ==
    IF IsName(s, i) \/ Str(s, i) = "*" THEN SkipNamesAndStars(s, Nx(s, i)) ELSE i

RECURSIVE TextsUpTo(_, _, _)
\* the texts of the tokens from cursor i up to, not including, the first x
TextsUpTo(s, i, x) ==
    IF ~Valid(s, i) \/ s[i].str = x THEN <<>>
    ELSE <<s[i].str>> \o TextsUpTo(s, i + 1, x)

RECURSIVE Concat(_)
\* the texts joined without spaces
Concat(q) == IF q = <<>> THEN "" ELSE Head(q) \o Concat(Tail(q))

RECURSIVE UseSpecialized(_, _, _, _)
\* the loop that rewrites every later use "name < args > (" of a specialization
UseSpecialized(s, tok2, pattern, name) ==
    LET m == FindMatchSeq(s, tok2, pattern)
    IN IF m = Null THEN s
       ELSE UseSpecialized(SetStr(EraseTokens(s, m, FindStr(s, m, "(")), m, name, "name"),
                           m, pattern, name)

\* the cursor of the name of the specialization headed by "template < >" at
\* cursor tok, null when the loop body is left by one of its "continue"s
SpecializedName(s, tok) ==
    LET lt == SkipNamesAndStars(s, At(s, tok, 3))
        tok2 == Pv(s, lt)
        tok3 == FindStr(s, tok2, ">")
    IN IF TemplateParameters(s, lt) = 0 THEN Null
       ELSE IF ~IsName(s, tok2) THEN Null
       ELSE IF ~(Str(s, tok3) = ">" /\ Str(s, Nx(s, tok3)) = "(") THEN Null
       ELSE tok2

RECURSIVE ExpandSpecializedLoop(_, _, _, _)
\* the for loop of expandSpecialized from cursor tok0 (the body does nothing at
\* a token that does not start "template < >": the loop is taken up at the
\* next one that does); ub: the name token was the successor of
\* "template < >", the object that tok->deleteThis() deletes, and is used
\* afterwards
ExpandSpecializedLoop(s, tok0, names, ub) ==
    LET tok == FindMatchSeq(s, tok0, <<"template", "<", ">">>) IN
    IF tok = Null THEN [toks |-> s, names |-> names, ub |-> ub]
    ELSE
    LET tok2 == SpecializedName(s, tok)
    IN IF tok2 = Null THEN ExpandSpecializedLoop(s, tok + 1, names, ub)
       ELSE
       LET texts == TextsUpTo(s, tok2, ">")
           pattern == texts \o <<">", "(">>
           name == Concat(texts) \o ">"
           s1 == SetStr(EraseTokens(s, tok2, FindStr(s, tok2, "(")), tok2, name, "name")
           s2 == DeleteThis(DeleteNext(s1, tok, 2), tok)
           s3 == UseSpecialized(s2, tok2 - 3, pattern, name)
       IN ExpandSpecializedLoop(s3, tok + 1, names \cup {name}, ub \/ tok2 = tok + 3)

\* a faulty variant of ExpandSpecialized: no specialization is expanded
ExpandSpecializedNothing(s) == [toks |-> s, names |-> {}, ub |-> FALSE]

\* TemplateSimplifier::expandSpecialized
ExpandSpecialized(s) == ExpandSpecializedLoop(s, 1, {}, FALSE)

\* -------------------------------------------------- getTemplateDeclarations
\* the first token at or after cursor i whose text is in set
FirstOf(s, i, set) ==
    IF ~Valid(s, i) THEN Null
    ELSE FirstIn({j \in i..Len(s) : s[j].str \in set})

RECURSIVE GetTemplateDeclarationsLoop(_, _, _, _)
\* the for loop of getTemplateDeclarations from cursor tok1 (the body does
\* nothing at a token that starts neither "namespace %type% {" nor
\* "template <": the loop is taken up at the next one that does)
GetTemplateDeclarationsLoop(s, tok1, templates, flag) ==
    LET tok0 == IF ~Valid(s, tok1) THEN Null
                ELSE FirstIn({j \in tok1..Len(s) :
                                 s[j].str \in {"namespace", "template"}})
    IN
    IF tok0 = Null THEN [templates |-> templates, flag |-> flag]
    ELSE
    LET tok == IF Str(s, tok0) = "namespace" /\ IsType(s, Nx(s, tok0)) /\
                  StrAt(s, tok0, 2) = "{"
               THEN Link(s, At(s, tok0, 2)) ELSE tok0
        isTemplate == MatchSeq(s, tok, <<"template", "<">>)
        isDefinition == isTemplate /\ Str(s, FirstOf(s, tok, {";", "{"})) = "{"
    IN GetTemplateDeclarationsLoop(s, Nx(s, tok),
           IF isDefinition THEN Append(templates, s[tok].id) ELSE templates,
           flag \/ isTemplate)

\* TemplateSimplifier::getTemplateDeclarations: the heads of the template
\* definitions, and the codeWithTemplates flag (only ever set, never cleared)
GetTemplateDeclarations(s, flag) == GetTemplateDeclarationsLoop(s, 1, <<>>, flag)

\* ------------------------------------------------- simplifyTemplates: typename
\* while (tok && tok->str() != ">") tok = tok->next();
FirstGtFrom(s, i) == FindStr(s, i, ">")

RECURSIVE RemoveTypenameLoop(_, _)
\* Remove "typename" unless used in template arguments..
RemoveTypenameLoop(s, tok0) ==
    LET tok == FirstOf(s, tok0, {"typename", "template"}) IN
    IF tok = Null THEN s
    ELSE
    LET s1 == IF s[tok].str = "typename" THEN DeleteThis(s, tok) ELSE s
    IN IF MatchSeq(s1, tok, <<"template", "<">>)
       THEN (IF FirstGtFrom(s1, tok) = Null THEN s1
             ELSE RemoveTypenameLoop(s1, FirstGtFrom(s1, tok) + 1))
       ELSE RemoveTypenameLoop(s1, tok + 1)

\* ------------------------------------------------ getTemplateInstantiations
\* Token::Match(tok->previous(), "[({};=] %var% <") || "%type% %var% <" ||
\* Token::Match(tok->tokAt(-2), "[,:] private|protected|public %var% <")
IsUseSite(s, tok) ==
    /\ IsVar(s, tok)
    /\ Str(s, Nx(s, tok)) = "<"
    /\ \/ IsOneOf(s, Pv(s, tok), {"(", "{", "}", ";", "="})
       \/ IsType(s, Pv(s, tok))
       \/ /\ IsOneOf(s, Pv(s, tok), {"private", "protected", "public"})
          /\ IsOneOf(s, At(s, tok, -2), {",", ":"})

RECURSIVE InnerInstantiations(_, _, _)
\* parse backwards from cursor tok2 down to tok and add the ", %var% <" seen
InnerInstantiations(s, tok2, tok) ==
    IF ~Valid(s, tok2) \/ tok2 = tok THEN <<>>
    ELSE (IF Str(s, tok2) = "," /\ IsVar(s, Nx(s, tok2)) /\ StrAt(s, tok2, 2) = "<" /\
             TemplateParameters(s, At(s, tok2, 2)) > 0
          THEN <<s[tok2 + 1].id>> ELSE <<>>)
         \o InnerInstantiations(s, Pv(s, tok2), tok)

RECURSIVE GetTemplateInstantiationsLoop(_, _)
GetTemplateInstantiationsLoop(s, tok0) ==
    LET tok == IF ~Valid(s, tok0) THEN Null
               ELSE FirstIn({j \in tok0..Len(s) :
                                s[j].str = "template" \/ IsUseSite(s, j)})
    IN
    IF tok = Null THEN <<>>
    ELSE IF MatchSeq(s, tok, <<"template", "<">>)
    THEN (IF FindClosingBracket(s, tok + 1) = Null THEN <<>>
          ELSE GetTemplateInstantiationsLoop(s, FindClosingBracket(s, tok + 1) + 1))
    ELSE IF IsUseSite(s, tok)
    THEN InnerInstantiations(s, FindClosingBracket(s, tok + 1), tok)
         \o (IF TemplateParameters(s, tok + 1) > 0 THEN <<s[tok].id>> ELSE <<>>)
         \o GetTemplateInstantiationsLoop(s, tok + 1)
    ELSE GetTemplateInstantiationsLoop(s, tok + 1)

\* TemplateSimplifier::getTemplateInstantiations: the name tokens of the use
\* sites, in the order they are pushed
GetTemplateInstantiations(s) == GetTemplateInstantiationsLoop(s, 1)

\* ------------------------------------------------- useDefaultArgumentValues
RECURSIVE ScanParameters(_, _, _, _)
\* "Scan template declaration..": the parameter number, the "=" tokens and the
\* class name found up to the first ">"
ScanParameters(s, tok, templatepar, eq) ==
    IF ~Valid(s, tok) THEN [templatepar |-> templatepar, eq |-> eq, classname |-> ""]
    ELSE IF s[tok].str = ">"
    THEN [templatepar |-> templatepar, eq |-> eq,
          classname |-> IF IsOneOf(s, Nx(s, tok), {"class", "struct"}) /\ IsVar(s, At(s, tok, 2))
                        THEN StrAt(s, tok, 2) ELSE ""]
    ELSE ScanParameters(s, tok + 1,
                        IF s[tok].str = "," THEN templatepar + 1 ELSE templatepar,
                        IF s[tok].str = "=" THEN Append(eq, s[tok].id) ELSE eq)

RECURSIVE CountUsed(_, _, _)
\* "count the parameters..": the cursor the loop stops at and usedpar
CountUsed(s, tok, usedpar) ==
    IF ~Valid(s, tok) THEN [tok |-> Null, usedpar |-> usedpar]
    ELSE IF s[tok].str = ">" THEN [tok |-> tok, usedpar |-> usedpar]
    ELSE IF s[tok].str = "," THEN CountUsed(s, At(s, tok, 2), usedpar + 1)
    ELSE [tok |-> tok, usedpar |-> usedpar]

RECURSIVE CopyDefault(_, _, _, _, _)
\* copies the default value that starts at cursor from after cursor tok
CopyDefault(s, tok, from, links, nid) ==
    IF ~Valid(s, from) \/ (links = <<>> /\ s[from].str \in {",", ">"})
    THEN [toks |-> s, tok |-> tok, nid |-> nid]
    ELSE
    LET s1 == InsertToken(s, tok,
                  [id |-> nid, str |-> s[from].str, kind |-> s[from].kind,
                   link |-> 0, fl |-> {}])
        t == tok + 1
        from1 == IF from > tok THEN from + 1 ELSE from
        closes == links # <<>> /\ s1[t].str \in {")", "]"}
        s2 == IF closes THEN CreateMutualLinks(s1, Pos(s1, Head(links)), t) ELSE s1
        links1 == IF s1[t].str \in {"(", "["} THEN <<nid>> \o links
                  ELSE IF closes THEN Tail(links)
                  ELSE links
    IN CopyDefault(s2, t, from1 + 1, links1, nid + 1)

RECURSIVE AppendDefaults(_, _, _, _)
\* while (it != eq.end()): a comma and a copy of each remaining default value
AppendDefaults(s, tok, eq, nid) ==
    IF eq = <<>> THEN [toks |-> s, nid |-> nid]
    ELSE LET s1 == InsertToken(s, tok, NewTok(nid, ",", {}))
             c == CopyDefault(s1, tok + 1, Nx(s1, Pos(s1, Head(eq))), <<>>, nid + 1)
         IN AppendDefaults(c.toks, c.tok, Tail(eq), c.nid)

\* the "=" tokens left after skipping those of the parameters the use supplies
SkipSupplied(eq, templatepar, usedpar) ==
    LET first == templatepar - Len(eq)
        n == IF usedpar > first THEN usedpar - first ELSE 0
    IN IF n >= Len(eq) THEN <<>> ELSE SubSeq(eq, n + 1, Len(eq))

RECURSIVE FillUses(_, _, _, _, _, _)
\* "iterate through all template instantiations": k is the iterator iter2
FillUses(s, insts, k, p, nid, ub) ==
    IF k > Len(insts) THEN [toks |-> s, nid |-> nid, ub |-> ub]
    ELSE
    LET tok == Pos(s, insts[k])
    IN IF tok = Null THEN FillUses(s, insts, k + 1, p, nid, TRUE)
       ELSE IF ~(s[tok].str = p.classname /\ Str(s, Nx(s, tok)) = "<" /\ Valid(s, tok + 2))
       THEN FillUses(s, insts, k + 1, p, nid, ub)
       ELSE LET c == CountUsed(s, At(s, tok, 3), 1)
            IN IF Str(s, c.tok) # ">" THEN FillUses(s, insts, k + 1, p, nid, ub)
               ELSE LET a == AppendDefaults(s, c.tok - 1,
                                 SkipSupplied(p.eq, p.templatepar, c.usedpar), nid)
                    IN FillUses(a.toks, insts, k + 1, p, a.nid, ub)

\* the list without the first element equal to id (std::find and erase)
RemoveFirst(q, id) ==
    IF \E k \in 1..Len(q) : q[k] = id
    THEN LET k == CHOOSE k \in 1..Len(q) : q[k] = id /\ \A j \in 1..(k - 1) : q[j] # id
         IN SubSeq(q, 1, k - 1) \o SubSeq(q, k + 1, Len(q))
    ELSE q

RECURSIVE DefaultEnd(_, _, _, _)
\* the walk over one default value from cursor tok2: where it ends, the list
\* with the ">>" it rewrote, and the instantiation list without the use sites
\* it met
DefaultEnd(s, tok2, indentlevel, insts) ==
    IF ~Valid(s, tok2) THEN [toks |-> s, tok2 |-> Null, insts |-> insts]
    ELSE IF s[tok2].str = "("
    THEN (IF Link(s, tok2) = Null THEN [toks |-> s, tok2 |-> Null, insts |-> insts]
          ELSE DefaultEnd(s, Nx(s, Link(s, tok2)), indentlevel, insts))
    ELSE IF IsType(s, tok2) /\ Str(s, Nx(s, tok2)) = "<" /\
            TemplateParameters(s, Nx(s, tok2)) > 0
    THEN DefaultEnd(s, tok2 + 1, indentlevel + 1, RemoveFirst(insts, s[tok2].id))
    ELSE IF indentlevel > 0 /\ s[tok2].str = ">"
    THEN DefaultEnd(s, tok2 + 1, indentlevel - 1, insts)
    ELSE IF indentlevel > 0 /\ s[tok2].str = ">>"
    THEN (IF indentlevel - 2 < 0
          THEN [toks |-> SetStr(s, tok2, ">", "op"), tok2 |-> tok2, insts |-> insts]
          ELSE DefaultEnd(s, tok2 + 1, indentlevel - 2, insts))
    ELSE IF indentlevel = 0 /\ s[tok2].str \in {",", ">", ">>"}
    THEN [toks |-> s, tok2 |-> tok2, insts |-> insts]
    ELSE DefaultEnd(s, tok2 + 1, indentlevel, insts)

RECURSIVE EraseDefaults(_, _, _, _)
\* the loop over eq that erases "= value" from the declaration header
EraseDefaults(s, insts, eq, ub) ==
    IF eq = <<>> THEN [toks |-> s, insts |-> insts, ub |-> ub]
    ELSE
    LET eqtok == Pos(s, Head(eq))
    IN IF eqtok = Null THEN EraseDefaults(s, insts, Tail(eq), TRUE)
       ELSE LET d == DefaultEnd(s, Nx(s, eqtok), 0, insts)
                s1 == DeleteThis(EraseTokens(d.toks, eqtok, d.tok2), eqtok)
            IN EraseDefaults(s1, d.insts, Tail(eq), ub)

RECURSIVE UseDefaultArgumentValuesLoop(_, _, _, _, _)
\* the loop over the declarations
UseDefaultArgumentValuesLoop(s, templates, insts, nid, ub) ==
    IF templates = <<>> THEN [toks |-> s, insts |-> insts, nid |-> nid, ub |-> ub]
    ELSE
    LET head == Pos(s, Head(templates))
        p == ScanParameters(s, head, 1, <<>>)
    IN IF head = Null
       THEN UseDefaultArgumentValuesLoop(s, Tail(templates), insts, nid, TRUE)
       ELSE IF p.eq = <<>> \/ p.classname = ""
       THEN UseDefaultArgumentValuesLoop(s, Tail(templates), insts, nid, ub)
       ELSE LET f == FillUses(s, insts, 1, p, nid, ub)
                e == EraseDefaults(f.toks, insts, p.eq, f.ub)
            IN UseDefaultArgumentValuesLoop(e.toks, Tail(templates), e.insts, f.nid, e.ub)

\* TemplateSimplifier::useDefaultArgumentValues
UseDefaultArgumentValues(s, templates, insts, nid) ==
    UseDefaultArgumentValuesLoop(s, templates, insts, nid, FALSE)

\* ------------------------------------- instantiateMatch, name position
RECURSIVE InstanceEnd(_, _, _)
\* the walk of instantiateMatch from the instance to the ">" that closes it
InstanceEnd(s, tok, indentlevel) ==
    IF ~Valid(s, tok) THEN Null
    ELSE IF ~((indentlevel > 0 \/ s[tok].str # ">") /\ (indentlevel > 1 \/ s[tok].str # ">>"))
    THEN tok
    ELSE
    LET l1 == IF s[tok].str \in {"<", ","} /\ IsVar(s, Nx(s, tok)) /\
                 StrAt(s, tok, 2) = "<" /\ TemplateParameters(s, At(s, tok, 2)) > 0
              THEN indentlevel + 1 ELSE indentlevel
        l2 == IF l1 > 0 /\ s[tok].str = ">" THEN l1 - 1 ELSE l1
        l3 == IF l2 > 0 /\ s[tok].str = ">>" THEN (IF l2 > 1 THEN l2 - 2 ELSE l2 - 1) ELSE l2
    IN InstanceEnd(s, Nx(s, tok), l3)

\* Token::Match(tok, patternAfter) for the three patterns the callers pass
MatchAfter(s, tok, patternAfter) ==
    CASE patternAfter = "(" -> Str(s, tok) = "("
      [] patternAfter = "*| %var%" ->
            IF Str(s, tok) = "*" THEN IsVar(s, Nx(s, tok)) ELSE IsVar(s, tok)
      [] patternAfter = ":: ~| %var% (" ->
            /\ Str(s, tok) = "::"
            /\ IF StrAt(s, tok, 1) = "~"
               THEN IsVar(s, At(s, tok, 2)) /\ StrAt(s, tok, 3) = "("
               ELSE IsVar(s, At(s, tok, 1)) /\ StrAt(s, tok, 2) = "("
      [] OTHER -> FALSE

\* TemplateSimplifier::instantiateMatch ("" stands for a null patternAfter)
InstantiateMatch(s, instance, name, numberOfArguments, patternAfter) ==
    /\ Valid(s, instance)
    /\ s[instance].str = name
    /\ Str(s, Nx(s, instance)) = "<"
    /\ numberOfArguments = TemplateParameters(s, Nx(s, instance))
    /\ \/ patternAfter = ""
       \/ LET e == InstanceEnd(s, instance, 0)
          IN e # Null /\ MatchAfter(s, Nx(s, e), patternAfter)

\* TemplateSimplifier::getTemplateNamePosition, tok the ">" of the header
GetTemplateNamePosition(s, tok) ==
    LET opt(i) == IF IsOneOf(s, i, {"*", "&"}) THEN Nx(s, i) ELSE i
        namepos ==
            IF Str(s, tok) = ">" /\ IsOneOf(s, At(s, tok, 1), {"class", "struct"}) /\
               IsType(s, At(s, tok, 2)) /\ IsOneOf(s, At(s, tok, 3), {"{", ":"})
            THEN 2
            ELSE IF Str(s, tok) = ">" /\ IsType(s, At(s, tok, 1)) /\
                    IsType(s, opt(At(s, tok, 2))) /\ Str(s, Nx(s, opt(At(s, tok, 2)))) = "("
            THEN 2
            ELSE IF Str(s, tok) = ">" /\ IsType(s, At(s, tok, 1)) /\ IsType(s, At(s, tok, 2)) /\
                    IsType(s, opt(At(s, tok, 3))) /\ Str(s, Nx(s, opt(At(s, tok, 3)))) = "("
            THEN 3
            ELSE -1
    IN IF namepos = -1 THEN -1
       ELSE IF StrAt(s, tok, namepos) \in {"*", "&"} THEN namepos + 1
       ELSE namepos

\* ------------------------------------------------------------ expandTemplate
\* TokenList::addtoken(str): a new token at the back of the list
AddToken(s, nid, x, kind, fl) ==
    Append(s, [id |-> nid, str |-> x, kind |-> kind, link |-> 0, fl |-> fl])

\* a faulty variant of FormalIndex: no name is taken for a formal parameter
FormalIndexNone(formals, x) == 0

\* the index of the formal parameter named x, 0 when x is no formal parameter
FormalIndex(formals, x) ==
    IF \E k \in 1..Len(formals) : formals[k] = x
    THEN CHOOSE k \in 1..Len(formals) : formals[k] = x /\ \A j \in 1..(k - 1) : formals[j] # x
    ELSE 0

RECURSIVE CopyArgument(_, _, _, _)
\* "replace type with given type..": appends the tokens of the actual argument
\* that starts at cursor typetok
CopyArgument(s, typetok, typeindentlevel, nid) ==
    LET x == s[typetok].str
        opens == IsVar(s, typetok) /\ Str(s, Nx(s, typetok)) = "<" /\
                 TemplateParameters(s, Nx(s, typetok)) > 0
        lv == IF opens THEN typeindentlevel + 1
              ELSE IF typeindentlevel > 0 /\ x = ">" THEN typeindentlevel - 1
              ELSE IF typeindentlevel > 0 /\ x = ">>" THEN typeindentlevel - 2
              ELSE typeindentlevel
        stop == \/ ~Valid(s, typetok)
                \/ ~(typeindentlevel > 0 \/ x \notin {",", ">", ">>"})
                \/ ~opens /\ typeindentlevel = 1 /\ x = ">>"
    IN IF stop THEN [toks |-> s, nid |-> nid]
       ELSE CopyArgument(AddToken(s, nid, x, s[typetok].kind, s[typetok].fl),
                         typetok + 1, lv, nid + 1)

\* a faulty variant of LinkCopied: the closing bracket gets no link back
LinkCopiedOneWay(s, brackets, back) ==
    [s EXCEPT ![Pos(s, Head(brackets))].link = s[back].id]

\* Token::createMutualLinks(brackets.top(), tokenlist.back())
LinkCopied(s, brackets, back) == CreateMutualLinks(s, Pos(s, Head(brackets)), back)

RECURSIVE CopyDeclaration(_, _, _, _, _)
\* the inner for loop of expandTemplate from cursor tok3; st carries the list,
\* the instantiation list, the next token id and the flags assertFailed (one
\* of the asserts on the bracket stack fails), ranOff (the scan reached
\* the end of the list, after which the outer loop dereferences null) and
\* endless (the scan reached st.own, the first token this loop appended, with
\* the stack empty and indentlevel 0: from there it reads the copies of the
\* tokens it has read, which bring the same brackets in the same state, so no
\* "}" ends it and tokens are appended until memory runs out).
\* e is the record of the call's arguments.
CopyDeclaration(st, e, tok3, indentlevel, brackets) ==
    LET s == st.toks
        x == s[tok3].str
        itype == IF IsName(s, tok3) THEN FormalIndex(e.formals, x) ELSE 0
        c == CopyArgument(s, e.actuals[itype], 0, st.nid)
        s1 == AddToken(s, st.nid, x, s[tok3].kind, s[tok3].fl)
        st1 == [st EXCEPT !.toks = s1, !.nid = st.nid + 1]
        opener == IF x = "}" THEN "{" ELSE IF x = ")" THEN "(" ELSE "["
        st2 == [st1 EXCEPT !.toks = LinkCopied(s1, brackets, Len(s1))]
        \* which branch of the loop body the token takes
        branch ==
            IF ~Valid(s, tok3) THEN "end"
            ELSE IF tok3 = st.own /\ indentlevel = 0 /\ brackets = <<>> THEN "endless"
            ELSE IF itype > 0 THEN "type"
            ELSE IF x = e.name /\ Str(s, Nx(s, tok3)) # "<" THEN "name"
            ELSE IF IsType(s, tok3) /\ Str(s, Nx(s, tok3)) = "<" THEN "instantiation"
            ELSE IF x \in {"{", "(", "["} THEN "open"
            ELSE IF x \in {"}", ")", "]"}
            THEN (IF brackets = <<>> \/ s1[Pos(s1, Head(brackets))].str # opener
                  THEN "assert"
                  ELSE IF x = "}" /\ indentlevel <= 1 /\ Tail(brackets) = <<>>
                  THEN "break"
                  ELSE "close")
            ELSE "copy"
    IN CASE branch = "end" -> [st EXCEPT !.tok3 = Null, !.ranOff = TRUE]
         [] branch = "endless" -> [st EXCEPT !.tok3 = tok3, !.endless = TRUE]
         [] branch = "type" ->
                CopyDeclaration([st EXCEPT !.toks = c.toks, !.nid = c.nid], e,
                                Nx(s, tok3), indentlevel, brackets)
         [] branch = "name" ->
                CopyDeclaration([st EXCEPT !.toks = AddToken(s, st.nid, e.newName, "name", {}),
                                           !.nid = st.nid + 1], e,
                                Nx(s, tok3), indentlevel, brackets)
         [] branch = "instantiation" ->
                CopyDeclaration([st1 EXCEPT !.insts = Append(st.insts, st.nid)], e,
                                Nx(s1, tok3), indentlevel, brackets)
         [] branch = "open" ->
                CopyDeclaration(st1, e, Nx(s1, tok3),
                                IF x = "{" THEN indentlevel + 1 ELSE indentlevel,
                                <<st.nid>> \o brackets)
         [] branch = "assert" -> [st1 EXCEPT !.tok3 = tok3, !.assertFailed = TRUE]
         [] branch = "break" -> [st2 EXCEPT !.tok3 = tok3]
         [] branch = "close" ->
                CopyDeclaration(st2, e, Nx(st2.toks, tok3),
                                IF x = "}" THEN indentlevel - 1 ELSE indentlevel,
                                Tail(brackets))
         [] branch = "copy" -> CopyDeclaration(st1, e, Nx(s1, tok3), indentlevel, brackets)

RECURSIVE ExpandTemplateLoop(_, _, _)
\* the outer for loop of expandTemplate from cursor tok1 (the body does
\* nothing at a token that is not the ">" of the declaration and not the name,
\* and at an opening bracket it moves the cursor to the partner: the loop is
\* taken up at the next name, ">" or bracket without partner that no bracket
\* passed since tok1 reaches over)
ExpandTemplateLoop(st, e, tok1) ==
    LET s == st.toks
        ids == {s[k].id : k \in 1..Len(s)}
        Open(j) == s[j].str \in {"{", "(", "["}
        Inside(j) == LET links == {s[i].link : i \in {i \in tok1..(j - 1) : Open(i)}}
                     IN \E k \in j..Len(s) : s[k].id \in links
        tok0 == IF ~Valid(s, tok1) THEN Null
                ELSE FirstIn({j \in tok1..Len(s) :
                                 /\ \/ s[j].str = e.name
                                    \/ s[j].id = e.tok
                                    \/ Open(j) /\ s[j].link \notin ids
                                 /\ ~Inside(j)})
    IN
    IF tok0 = Null \/ st.assertFailed \/ st.ranOff \/ st.endless THEN st
    ELSE
    LET tok3 == IF s[tok0].str \in {"{", "(", "["} THEN Link(s, tok0) ELSE tok0
    IN IF tok3 = Null THEN [st EXCEPT !.ranOff = TRUE]
       ELSE IF s[tok3].id = e.tok
       THEN LET c == CopyDeclaration([st EXCEPT !.own = Len(s) + 1], e, Nx(s, tok3), 0, <<>>)
            IN ExpandTemplateLoop(c, e, Nx(c.toks, c.tok3))
       ELSE IF InstantiateMatch(s, tok3, e.name, Len(e.formals), ":: ~| %var% (")
       THEN LET st1 == [st EXCEPT !.toks = AddToken(s, st.nid, e.newName, "name", {}),
                                  !.nid = st.nid + 1, !.own = Len(s) + 2]
                c == CopyDeclaration(st1, e, FindStr(s, tok3, "::"), 0, <<>>)
            IN ExpandTemplateLoop(c, e, Nx(c.toks, c.tok3))
       ELSE ExpandTemplateLoop(st, e, Nx(s, tok3))

\* TemplateSimplifier::expandTemplate: e = [tok: the ">" of the declaration
\* header (a token id), name, formals (typeParametersInDeclaration, by text),
\* newName, actuals (typesUsedInTemplateInstantiation, cursors)]
ExpandTemplate(s, insts, nid, e) ==
    ExpandTemplateLoop([toks |-> s, insts |-> insts, nid |-> nid, tok3 |-> Null, own |-> Null,
                        assertFailed |-> FALSE, ranOff |-> FALSE, endless |-> FALSE], e, 1)

\* ------------------------------------------- simplifyTemplateInstantiations
RECURSIVE TypeParameters(_, _)
\* "Contains tokens such as T": the texts of the "%var% ,|>" tokens of the header
TypeParameters(s, tok) ==
    IF ~Valid(s, tok) \/ s[tok].str = ">" THEN <<>>
    ELSE (IF IsVar(s, tok) /\ IsOneOf(s, Nx(s, tok), {",", ">"}) THEN <<s[tok].str>> ELSE <<>>)
         \o TypeParameters(s, tok + 1)

\* the text a token adds to typeForNewNameStr
TypeText(t) ==
    IF t.str = "class" THEN ""
    ELSE (IF "unsigned" \in t.fl THEN "unsigned"
          ELSE IF "signed" \in t.fl THEN "signed" ELSE "")
         \o (IF "long" \in t.fl THEN "long" ELSE "") \o t.str

RECURSIVE NewType(_, _, _, _)
\* the loop under "New type..": r = [types, typeStr, pattern] so far
NewType(s, tok3, indentlevel, r) ==
    IF ~Valid(s, tok3) \/ ~(indentlevel > 0 \/ s[tok3].str # ">") THEN r
    ELSE IF s[tok3].str \in {"(", "["} \/ Nx(s, tok3) = Null THEN [r EXCEPT !.typeStr = ""]
    ELSE
    LET opens == IsOneOf(s, At(s, tok3, -2), {"<", ","}) /\ IsVar(s, Pv(s, tok3)) /\
                 s[tok3].str = "<" /\ TemplateParameters(s, tok3) > 0
        closes == ~opens /\ indentlevel > 0 /\ s[tok3].str = ">" /\
                  IsOneOf(s, Nx(s, tok3), {",", ">"})
        shift == ~opens /\ ~closes /\ indentlevel > 0 /\ s[tok3].str = ">>"
        lv == IF opens THEN indentlevel + 1
              ELSE IF closes THEN indentlevel - 1
              ELSE IF shift THEN indentlevel - 2
              ELSE indentlevel
    IN IF shift /\ indentlevel = 1
       THEN [r EXCEPT !.typeStr = r.typeStr \o ">",
                      !.pattern = r.pattern \o <<">>">>, !.closed = TRUE]
       ELSE NewType(s, tok3 + 1, lv,
                [r EXCEPT
                   !.pattern = r.pattern \o
                               (IF s[tok3].str = ">>" THEN <<">", ">">> ELSE <<s[tok3].str>>),
                   !.types = IF lv = 0 /\ IsOneOf(s, Pv(s, tok3), {"<", ","})
                             THEN Append(r.types, tok3) ELSE r.types,
                   !.typeStr = r.typeStr \o TypeText(s[tok3])])

\* typesUsedInTemplateInstantiation (cursors), typeForNewNameStr and
\* templateMatchPattern (token by token) of the use site at cursor tok2
UseSiteType(s, tok2, name) ==
    LET r == NewType(s, At(s, tok2, 2), 0,
                     [types |-> <<>>, typeStr |-> "", pattern |-> <<name, "<">>,
                      closed |-> FALSE])
    IN [types |-> r.types, typeStr |-> r.typeStr,
        pattern |-> IF r.closed THEN r.pattern ELSE r.pattern \o <<">">>]

RECURSIVE UsageEnd(_, _, _, _, _, _)
\* the while loop over tok5: where it stops, and typeCountInInstantiation
\* (inside a nested list, indentlevel5 > 0, the body does nothing at a token
\* that is neither "<" nor ">": the loop is taken up at the next one that is)
UsageEnd(s, tok, indentlevel5, typetok, count, types) ==
    LET tok5 == IF Valid(s, tok) /\ indentlevel5 > 0
                THEN FirstIn({j \in tok..Len(s) : s[j].str \in {"<", ">"}})
                ELSE tok
    IN
    IF ~Valid(s, tok5) \/ ~(indentlevel5 > 0 \/ s[tok5].str # ">")
    THEN [tok5 |-> IF Valid(s, tok5) THEN tok5 ELSE Null, count |-> count]
    ELSE IF s[tok5].str = "<" /\ TemplateParameters(s, tok5) > 0
    THEN UsageEnd(s, Nx(s, tok5), indentlevel5 + 1, typetok, count, types)
    ELSE IF indentlevel5 > 0 /\ s[tok5].str = ">" /\ IsOneOf(s, Nx(s, tok5), {",", ">"})
    THEN UsageEnd(s, Nx(s, tok5), indentlevel5 - 1, typetok, count, types)
    ELSE IF indentlevel5 = 0
    THEN (IF s[tok5].str # ","
          THEN (IF typetok = Null \/ s[tok5].fl # s[typetok].fl
                THEN [tok5 |-> tok5, count |-> count]
                ELSE UsageEnd(s, Nx(s, tok5), indentlevel5, Nx(s, typetok), count, types))
          ELSE UsageEnd(s, Nx(s, tok5), indentlevel5,
                        IF count < Len(types) THEN types[count + 1] ELSE Null,
                        count + 1, types))
    ELSE UsageEnd(s, Nx(s, tok5), indentlevel5, typetok, count, types)

\* the list without the elements that are name tokens strictly between the
\* cursors lo and hi (templateInstantiations.remove(tok6))
RemoveNames(s, insts, lo, hi) ==
    SelectSeq(insts, LAMBDA id : ~(\E j \in (lo + 1)..(hi - 1) : s[j].id = id /\ IsName(s, j)))

RECURSIVE ReplaceUsagesLoop(_, _, _, _)
\* "Replace all these template usages..": the scan from cursor tok0, taken up
\* at the next token tok4 that matches templateMatchPattern; r carries
\* the list with the renamed name tokens, the instantiation list and the
\* ranges to erase (pairs of token ids), u the record of the use site
ReplaceUsagesLoop(r, u, tok0, types) ==
    LET s == r.toks
        tok4 == FindMatchSeq(s, tok0, u.pattern)
    IN
    IF tok4 = Null THEN r
    ELSE
    LET e == UsageEnd(s, At(s, tok4, 2), 0,
                      IF types = <<>> THEN Null ELSE types[1], 1, types)
        tok5 == e.tok5
        hit == Str(s, tok5) = ">" /\ e.count = Len(types)
        r1 == IF hit
              THEN [toks |-> SetStr(s, tok4, u.newName, "name"),
                    insts |-> RemoveNames(s, r.insts, tok4, tok5),
                    removeTokens |-> Append(r.removeTokens, <<s[tok4].id, IdAt(s, Nx(s, tok5))>>),
                    rewritten |-> Append(r.rewritten, s[tok4].id)]
              ELSE r
    IN IF tok5 = Null THEN r1 ELSE ReplaceUsagesLoop(r1, u, tok5 + 1, types)

RECURSIVE EraseRanges(_, _)
\* while (!removeTokens.empty()): the ranges are erased last first
EraseRanges(s, removeTokens) ==
    IF removeTokens = <<>> THEN s
    ELSE LET last == removeTokens[Len(removeTokens)]
         IN EraseRanges(EraseTokens(s, Pos(s, last[1]),
                                    IF last[2] = Null THEN Null ELSE Pos(s, last[2])),
                        SubSeq(removeTokens, 1, Len(removeTokens) - 1))

\* the whole replacement for the use site at cursor tok2
ReplaceUsages(s, insts, tok2, u, types) ==
    LET r == ReplaceUsagesLoop([toks |-> s, insts |-> insts, removeTokens |-> <<>>,
                                rewritten |-> <<>>], u, tok2, types)
    IN [toks |-> EraseRanges(r.toks, r.removeTokens), insts |-> r.insts,
        rewritten |-> r.rewritten]

\* ------------------------------------------------ operator classes, MathLib
ArithmeticalOps == {"+", "-", "*", "/", "%", ">>", "<<"}
ComparisonOps == {"==", "!=", "<", "<=", ">", ">="}
AssignmentOps == {"=", "+=", "-=", "*=", "/=", "%=", "&=", "|=", "^=", "<<=", ">>="}
\* Token::isConstOp
ConstOps == ArithmeticalOps \cup ComparisonOps \cup {"&&", "||", "!", "&", "|", "^", "~"}
\* Token::isOp
Ops == ConstOps \cup AssignmentOps \cup {"++", "--"}

RECURSIVE BitOp(_, _, _)
\* a bitwise operation on two non-negative integers
BitOp(a, b, cop) ==
    IF a = 0 /\ b = 0 THEN 0
    ELSE LET x == a % 2
             y == b % 2
             bit == IF cop = "&" THEN (IF x = 1 /\ y = 1 THEN 1 ELSE 0)
                    ELSE IF cop = "|" THEN (IF x = 1 \/ y = 1 THEN 1 ELSE 0)
                    ELSE (IF x # y THEN 1 ELSE 0)
         IN bit + 2 * BitOp(a \div 2, b \div 2, cop)

RECURSIVE Pow2(_)
Pow2(n) == IF n = 0 THEN 1 ELSE 2 * Pow2(n - 1)

\* C++ integer division and remainder (truncation toward zero)
CDiv(a, b) == LET q == (IF a < 0 THEN 0 - a ELSE a) \div (IF b < 0 THEN 0 - b ELSE b)
              IN IF (a < 0) # (b < 0) THEN 0 - q ELSE q
CMod(a, b) == a - b * CDiv(a, b)

\* MathLib::calculate / add / subtract / multiply / divide on integer texts
Calculate(x, y, cop) ==
    LET a == StrToInt(x)
        b == StrToInt(y)
    IN IntToStr(CASE cop = "+" -> a + b
                  [] cop = "-" -> a - b
                  [] cop = "*" -> a * b
                  [] cop = "/" -> CDiv(a, b)
                  [] cop = "%" -> CMod(a, b)
                  [] OTHER -> BitOp(a, b, cop))

\* ---------------------------------------------- simplifyNumericCalculations
IsLowerThanOr(s, i) ==
    IsOneOf(s, i, AssignmentOps \cup {"}", ";", "(", "[", "]", ")", ",", "?", ":", "||",
                                      "&&", "return", "throw", "case"})
IsLowerThanXor(s, i) == IsLowerThanOr(s, i) \/ Str(s, i) = "|"
IsLowerThanAnd(s, i) == IsLowerThanXor(s, i) \/ Str(s, i) = "^"
IsLowerThanShift(s, i) == IsLowerThanAnd(s, i) \/ IsOneOf(s, i, ComparisonOps \cup {"&"})
IsLowerThanPlusMinus(s, i) == IsLowerThanShift(s, i) \/ IsOneOf(s, i, {"<<", ">>"})
IsLowerThanMulDiv(s, i) == IsLowerThanPlusMinus(s, i) \/ IsOneOf(s, i, {"+", "-"})
IsLowerEqualThanMulDiv(s, i) == IsLowerThanMulDiv(s, i) \/ IsOneOf(s, i, {"*", "/", "%"})

\* the condition under which "tok n1 op n2 after" may be folded
MayFold(s, tok) ==
    LET op == Str(s, At(s, tok, 2))
        after == At(s, tok, 4)
        n1 == StrAt(s, tok, 1)
        n2 == StrAt(s, tok, 3)
    IN \/ /\ Str(s, tok) = "*" /\ op = "/" /\ n2 # "0"
          /\ n1 = Calculate(n2, Calculate(n1, n2, "/"), "*")
       \/ op = "*" /\ (IsLowerThanMulDiv(s, tok) \/ Str(s, tok) = "*") /\
          IsLowerEqualThanMulDiv(s, after)
       \/ op \in {"/", "%"} /\ IsLowerThanMulDiv(s, tok) /\ IsLowerEqualThanMulDiv(s, after)
       \/ op \in {"+", "-"} /\ IsLowerThanMulDiv(s, tok) /\ IsLowerThanMulDiv(s, after)
       \/ op \in {">>", "<<"} /\ IsLowerThanShift(s, tok) /\ IsLowerThanPlusMinus(s, after)
       \/ op = "&" /\ IsLowerThanShift(s, tok) /\ IsLowerThanShift(s, after)
       \/ op = "^" /\ IsLowerThanAnd(s, tok) /\ IsLowerThanAnd(s, after)
       \/ op = "|" /\ IsLowerThanXor(s, tok) /\ IsLowerThanXor(s, after)

\* the text that replaces "n1 op n2" at cursor tok (the first number), "" when
\* the integer operation yields no result
Folded(s, tok) ==
    LET op == StrAt(s, tok, 1)
        x == s[tok].str
        y == StrAt(s, tok, 2)
    IN IF op \in {"&", "^", "|"} THEN Calculate(x, y, op)
       ELSE IF op = "<<"
       THEN (IF Str(s, Pv(s, tok)) # "<<" /\ StrToInt(y) > 0
             THEN IntToStr(StrToInt(x) * Pow2(StrToInt(y))) ELSE "")
       ELSE IF op = ">>"
       THEN (IF StrToInt(y) > 0 THEN IntToStr(StrToInt(x) \div Pow2(StrToInt(y))) ELSE "")
       ELSE IF Str(s, Pv(s, tok)) = "-" /\ op = "-" THEN Calculate(x, y, "+")
       ELSE IF Str(s, Pv(s, tok)) = "-" /\ op = "+" THEN Calculate(x, y, "-")
       ELSE Calculate(x, y, op)

RECURSIVE SimplifyNumericCalculations(_, _)
\* TemplateSimplifier::simplifyNumericCalculations: the list after the while
\* loop entered with cursor tok
SimplifyNumericCalculations(s, tok) ==
    IF ~(At(s, tok, 4) # Null /\ IsNumber(s, At(s, tok, 1)) /\ IsNumber(s, At(s, tok, 3)))
    THEN s
    ELSE IF ~MayFold(s, tok) THEN s
    ELSE
    LET t == tok + 1
        op == StrAt(s, t, 1)
    IN IF op \in {"/", "%"} /\ StrAt(s, t, 2) = "0" THEN SimplifyNumericCalculations(s, t)
       ELSE IF Folded(s, t) = ""
       THEN SimplifyNumericCalculations(DeleteNext(s, t, 2), t)
       ELSE SimplifyNumericCalculations(DeleteNext(SetStr(s, t, Folded(s, t), "num"), t, 2), t)

\* ------------------------------------------------------ simplifyCalculations
\* c = [s, t]: the list and the cursor tok.  Each rule below is one "if" of the
\* loop body of simplifyCalculations.

\* tok->deleteThis() with the cursor following the object
DelThis(c) == LET s1 == DeleteThis(c.s, c.t)
              IN [s |-> s1, t |-> Pos(s1, c.s[c.t].id)]
DelNext(c, n) == [c EXCEPT !.s = DeleteNext(c.s, c.t, n)]
\* if (tok->next()->str() == "(") Token::eraseTokens(tok, tok->next()->link());
EraseGroup(c) == IF Str(c.s, Nx(c.s, c.t)) = "("
                 THEN [c EXCEPT !.s = EraseTokens(c.s, c.t, Link(c.s, Nx(c.s, c.t)))]
                 ELSE c

\* "Remove parentheses around variable.."
ParenVarRule(c) ==
    LET s == c.s
        tok == c.t
        n == Nx(s, tok)
    IN IF /\ Str(s, n) = "(" /\ IsVar(s, At(s, n, 1)) /\ StrAt(s, n, 2) = ")"
          /\ \/ IsOneOf(s, At(s, n, 3), {";", ")", ",", "]"})
             \/ IsOneOf(s, At(s, n, 3), ConstOps) /\
                ~IsOneOf(s, At(s, tok, 4), {"*", "&", "+", "-"})
          /\ ~IsName(s, tok)
          /\ s[tok].str \notin {">", "]"}
          /\ StrAt(s, tok, -1) # "operator"
          /\ ~(StrAt(s, tok, -1) = "*" /\ s[tok].str = ")")
          /\ ~(StrAt(s, tok, -1) = ")" /\ s[tok].str = ")")
          /\ ~(StrAt(s, tok, -2) = "*" /\ IsVar(s, At(s, tok, -1)) /\ s[tok].str = ")")
          /\ ~(IsType(s, At(s, tok, -2)) /\ StrAt(s, tok, -1) = "(" /\ s[tok].str = ")" /\
               Str(s, n) = "(" /\ IsVar(s, At(s, tok, 2)))
          /\ ~(s[tok].str = ")" /\ StrAt(s, tok, 4) = ";")
       THEN LET s1 == DeleteNext(s, tok, 1)
            IN [s |-> DeleteNext(s1, tok + 1, 1), t |-> tok + 1]
       ELSE c

RECURSIVE RedundantEnd(_, _, _)
\* the scan to the end of a redundant condition
RedundantEnd(s, tok2, par) ==
    IF ~Valid(s, tok2) THEN Null
    ELSE IF s[tok2].str = "(" THEN RedundantEnd(s, tok2 + 1, par + 1)
    ELSE IF s[tok2].str = ")"
    THEN (IF par = 0 THEN tok2 ELSE RedundantEnd(s, tok2 + 1, par - 1))
    ELSE IF par = 0 /\ s[tok2].str \in {",", ";", "?"} THEN tok2
    ELSE RedundantEnd(s, tok2 + 1, par)

\* "Remove redundant conditions (0&&x) (1||x)"
IsRedundant(s, tok) ==
    /\ IsOneOf(s, Pv(s, tok), {"(", "=", ","})
    /\ \/ s[tok].str = "0" /\ Str(s, Nx(s, tok)) = "&&"
       \/ s[tok].str = "1" /\ Str(s, Nx(s, tok)) = "||"

\* the tail ",|]|)|;|=|%cop%" and the like at cursor i
EndsVar(s, i, set) == IsOneOf(s, i, set) \/ IsOneOf(s, i, ConstOps)
EndsNum(s, i, set) == IsOneOf(s, i, set) \/ IsOneOf(s, i, Ops)

ZeroRule(c) ==
    LET s == c.s
        tok == c.t
        p == Pv(s, tok)
        n == Nx(s, tok)
        open == IsOneOf(s, p, {"=", "[", "(", ","})
        ret == IsOneOf(s, p, {"return", "case"})
    IN IF Str(s, tok) # "0" THEN c
       ELSE IF IsOneOf(s, p, {"+", "-", "|"})
       THEN LET whole == /\ IsOneOf(s, At(s, p, -4), {";", "{", "}"})
                         /\ IsVar(s, At(s, p, -3)) /\ StrAt(s, p, -2) = "="
                         /\ IsVar(s, At(s, p, -1)) /\ StrAt(s, p, 2) = ";"
                         /\ StrAt(s, p, -3) = StrAt(s, p, -1)
                c1 == IF whole THEN DelThis(DelNext([s |-> s, t |-> p - 3], 2))
                      ELSE [s |-> s, t |-> p]
            IN DelThis(DelNext(c1, 1))
       ELSE IF (open \/ ret) /\ IsOneOf(s, n, {"+", "|"})
       THEN DelThis(DelNext(c, 1))
       ELSE IF \/ /\ open /\ Str(s, n) = "*"
                  /\ \/ IsVar(s, At(s, tok, 2)) /\
                        EndsVar(s, At(s, tok, 3), {",", "]", ")", ";", "="})
                     \/ IsNumber(s, At(s, tok, 2)) /\
                        EndsNum(s, At(s, tok, 3), {",", "]", ")", ";"})
                     \/ StrAt(s, tok, 2) = "("
               \/ /\ ret /\ IsOneOf(s, n, {"*", "&&"})
                  /\ \/ IsVar(s, At(s, tok, 2)) /\
                        EndsVar(s, At(s, tok, 3), {",", ":", ";", "="})
                     \/ IsNumber(s, At(s, tok, 2)) /\
                        EndsNum(s, At(s, tok, 3), {",", ":", ";"})
                     \/ StrAt(s, tok, 2) = "("
       THEN DelNext(EraseGroup(DelNext(c, 1)), 1)
       ELSE IF /\ Str(s, n) = "&&" /\ IsOneOf(s, At(s, tok, 2), {"*", "&"})
               /\ Valid(s, tok + 3)
               /\ \/ open /\ EndsVar(s, At(s, tok, 4), {",", "]", ")", ";", "="})
                  \/ ret /\ EndsVar(s, At(s, tok, 4), {",", ":", ";", "="})
       THEN DelNext(EraseGroup(DelNext(DelNext(c, 1), 1)), 1)
       ELSE c

OneRule(c) ==
    LET s == c.s
        tok == c.t
        p == Pv(s, tok)
        open == IsOneOf(s, p, {"=", "[", "(", ","})
        ret == IsOneOf(s, p, {"return", "case"})
    IN IF Str(s, tok) # "1" \/ StrAt(s, tok, 1) # "||" THEN c
       ELSE IF /\ Valid(s, tok + 2)
               /\ \/ open /\ EndsVar(s, At(s, tok, 3), {",", "]", ")", ";", "="})
                  \/ ret /\ EndsVar(s, At(s, tok, 3), {",", ":", ";", "="})
       THEN DelNext(EraseGroup(DelNext(c, 1)), 1)
       ELSE IF /\ IsOneOf(s, At(s, tok, 2), {"*", "&"}) /\ Valid(s, tok + 3)
               /\ \/ open /\ EndsVar(s, At(s, tok, 4), {",", "]", ")", ";", "="})
                  \/ ret /\ EndsVar(s, At(s, tok, 4), {",", ":", ";", "="})
       THEN DelNext(EraseGroup(DelNext(DelNext(c, 1), 1)), 1)
       ELSE c

\* "* 1" and "1 *"
TimesOneRule(c) ==
    LET s == c.s
        tok == c.t
        p == Pv(s, tok)
    IN IF (Str(s, p) = "*" /\ Str(s, tok) = "1") \/ (Str(s, tok) = "1" /\ StrAt(s, tok, 1) = "*")
       THEN DelThis(DelNext(IF IsOneOf(s, p, ConstOps) THEN [c EXCEPT !.t = p] ELSE c, 1))
       ELSE c

\* "Remove parentheses around number.."
ParenNumRule(c) ==
    LET s == c.s
        tok == c.t
    IN IF /\ Valid(s, tok - 2) /\ StrAt(s, tok, -1) = "(" /\ IsNumber(s, tok)
          /\ StrAt(s, tok, 1) = ")" /\ ~IsName(s, tok - 2) /\ s[tok - 2].str # ">"
       THEN DelNext(DelThis([c EXCEPT !.t = tok - 1]), 1)
       ELSE c

\* "( 0 ||", "|| 0 )", "( 0 |", "| 0 )", "( 1 &&", "&& 1 )"
NeutralRule(c) ==
    LET s == c.s
        tok == c.t
        p == Str(s, Pv(s, tok))
        x == Str(s, tok)
        n == Str(s, Nx(s, tok))
    IN IF \/ p = "(" /\ x = "0" /\ n \in {"||", "|"}
          \/ p \in {"||", "|"} /\ x = "0" /\ n = ")"
          \/ p = "(" /\ x = "1" /\ n = "&&"
          \/ p = "&&" /\ x = "1" /\ n = ")"
       THEN DelThis(DelNext(IF p \in ConstOps THEN [c EXCEPT !.t = tok - 1] ELSE c, 1))
       ELSE c

\* "%num% %comp% %num%" between "(|&&|%oror%" and ")|&&|%oror%|?"
CompareRule(c) ==
    LET s == c.s
        tok == c.t
        cmp == StrAt(s, tok, 1)
    IN IF /\ IsNumber(s, tok) /\ cmp \in ComparisonOps /\ IsNumber(s, At(s, tok, 2))
          /\ IsOneOf(s, Pv(s, tok), {"(", "&&", "||"})
          /\ IsOneOf(s, At(s, tok, 3), {")", "&&", "||", "?"})
       THEN LET op1 == StrToInt(s[tok].str)
                op2 == StrToInt(StrAt(s, tok, 2))
                holds == CASE cmp = "==" -> op1 = op2
                           [] cmp = "!=" -> op1 # op2
                           [] cmp = "<=" -> op1 <= op2
                           [] cmp = ">=" -> op1 >= op2
                           [] cmp = "<" -> op1 < op2
                           [] OTHER -> op1 > op2
            IN DelNext([c EXCEPT !.s = SetStr(s, tok, IF holds THEN "1" ELSE "0", "num")], 2)
       ELSE c

RECURSIVE SimplifyCalculationsLoop(_, _)
\* the for loop of simplifyCalculations from cursor tok0 (the body does
\* nothing at a token that is no number and is followed neither by "(" nor
\* by a number: the loop is taken up at the next one that is)
SimplifyCalculationsLoop(s, tok0) ==
    LET tok == IF ~Valid(s, tok0) THEN Null
               ELSE FirstIn({j \in tok0..Len(s) :
                                \/ IsNumber(s, j) \/ IsNumber(s, Nx(s, j))
                                \/ Str(s, Nx(s, j)) = "("})
    IN
    IF tok = Null THEN s
    ELSE
    LET c1 == ParenVarRule([s |-> s, t |-> tok])
    IN IF IsNumber(c1.s, c1.t)
       THEN IF IsRedundant(c1.s, c1.t)
            THEN LET tok2 == RedundantEnd(c1.s, c1.t, 0)
                 IN SimplifyCalculationsLoop(
                        IF tok2 # Null THEN EraseTokens(c1.s, c1.t, tok2) ELSE c1.s,
                        Nx(c1.s, c1.t))
            ELSE LET c2 == CompareRule(NeutralRule(ParenNumRule(TimesOneRule(
                               OneRule(ZeroRule(c1))))))
                 IN SimplifyCalculationsLoop(c2.s, Nx(c2.s, c2.t))
       ELSE LET s2 == SimplifyNumericCalculations(c1.s, c1.t)
            IN SimplifyCalculationsLoop(s2, Nx(s2, c1.t))

\* TemplateSimplifier::simplifyCalculations (no character literals in the list)
SimplifyCalculations(s) == SimplifyCalculationsLoop(s, 1)

\* ------------------------------------------------------------ removeTemplate
\* Token::eraseTokens(tok, tok2); tok->deleteThis();
EraseHead(s, tok, tok2) == DeleteThis(EraseTokens(s, tok, tok2), tok)

\* a faulty variant of EraseDeclaration: only the head token is deleted
EraseDeclarationHeadOnly(s, tok, tok2) == DeleteThis(s, tok)

\* a faulty variant of EraseDeclaration: the ";" is deleted when it is the
\* last token too
EraseDeclarationAlways(s, tok, tok2) ==
    DeleteThis(IF Str(s, tok2) = ";"
               THEN DeleteNext(EraseTokens(s, tok, tok2), tok, 1)
               ELSE EraseTokens(s, tok, tok2), tok)

\* Token::eraseTokens(tok, tok2); if (tok2 && tok2->str() == ";" &&
\* tok2->next()) tok->deleteNext(); tok->deleteThis();
EraseDeclaration(s, tok, tok2) ==
    DeleteThis(IF Str(s, tok2) = ";" /\ Nx(s, tok2) # Null
               THEN DeleteNext(EraseTokens(s, tok, tok2), tok, 1)
               ELSE EraseTokens(s, tok, tok2), tok)

RECURSIVE RemoveTemplateLoop(_, _, _, _, _)
\* the for loop of removeTemplate: tok the "template" head, tok2 the cursor;
\* how: the token at which the function returned, at: its cursor
RemoveTemplateLoop(s, tok, tok2, indentlevel, countgt) ==
    IF ~Valid(s, tok2) THEN [toks |-> s, ret |-> FALSE, how |-> "end", at |-> Null]
    ELSE IF s[tok2].str = ")"
    THEN [toks |-> EraseHead(s, tok, tok2), ret |-> FALSE, how |-> ")", at |-> tok2]
    ELSE IF s[tok2].str = "{"
    THEN [toks |-> EraseDeclaration(s, tok, Nx(s, Link(s, tok2))), ret |-> TRUE,
          how |-> "{", at |-> tok2]
    ELSE IF s[tok2].str = "}"
    THEN [toks |-> EraseHead(s, tok, tok2), ret |-> FALSE, how |-> "}", at |-> tok2]
    ELSE
    LET t2 == IF s[tok2].str = "(" THEN Link(s, tok2) ELSE tok2
        gt == IF Str(s, t2) = ">" THEN countgt + 1 ELSE countgt
    IN IF t2 = Null THEN [toks |-> s, ret |-> FALSE, how |-> "end", at |-> Null]
       ELSE IF \/ s[t2].str = "explicit"
               \/ /\ gt = 1 /\ Str(s, Pv(s, t2)) = ">" /\ IsType(s, t2)
                  /\ Str(s, Nx(s, t2)) = "("
                  /\ Str(s, Link(s, Nx(s, t2))) = ")"
                  /\ Str(s, Nx(s, Link(s, Nx(s, t2)))) = "{"
       THEN [toks |-> EraseHead(s, tok, t2), ret |-> TRUE, how |-> "explicit", at |-> t2]
       ELSE IF s[t2].str = ";"
       THEN [toks |-> EraseHead(s, tok, Nx(s, t2)), ret |-> TRUE, how |-> ";", at |-> t2]
       ELSE IF s[t2].str = "<"
       THEN RemoveTemplateLoop(s, tok, Nx(s, t2), indentlevel + 1, gt)
       ELSE IF indentlevel >= 2 /\ s[t2].str = ">"
       THEN RemoveTemplateLoop(s, tok, Nx(s, t2), indentlevel - 1, gt)
       ELSE IF /\ s[t2].str = ">" /\ IsOneOf(s, At(s, t2, 1), {"class", "struct"})
               /\ IsVar(s, At(s, t2, 2)) /\ IsOneOf(s, At(s, t2, 3), {",", ")"})
       THEN [toks |-> EraseHead(s, tok, Nx(s, t2)), ret |-> TRUE, how |-> ">", at |-> t2]
       ELSE RemoveTemplateLoop(s, tok, Nx(s, t2), indentlevel, gt)

\* TemplateSimplifier::removeTemplate, tok a cursor
RemoveTemplate(s, tok) ==
    IF ~MatchSeq(s, tok, <<"template", "<">>)
    THEN [toks |-> s, ret |-> FALSE, how |-> "", at |-> Null]
    ELSE RemoveTemplateLoop(s, tok, Nx(s, tok), 0, 0)

\* ------------------------------------------------------------------ inputs
\* The token lists the pass is run on are made of up to MaxFrags of these
\* pieces of code, in any order.
Programs == <<
    \* a class template and a use
    <<"template", "<", "class", "T", ">", "struct", "A", "{", "T", "m", ";", "}", ";",
      "A", "<", "int", ">", "a", ";">>,
    \* a function template and a use
    <<"template", "<", "class", "T", ">", "T", "f", "(", "T", "x", ")",
      "{", "return", "x", ";", "}",
      "int", "z", "=", "f", "<", "int", ">", "(", "3", ")", ";">>,
    \* a function specialization and a use
    <<"template", "<", ">", "int", "f", "<", "int", ">", "(", "int", "x", ")",
      "{", "return", "x", ";", "}",
      "int", "y", "=", "f", "<", "int", ">", "(", "4", ")", ";">>,
    \* a class specialization
    <<"template", "<", ">", "struct", "A", "<", "char", ">", "{", "}", ";">>,
    \* a class template with a default argument and a use that omits it
    <<"template", "<", "class", "T", ",", "int", "N", "=", "2", ">", "struct", "B",
      "{", "T", "v", "[", "N", "]", ";", "}", ";",
      "B", "<", "char", ">", "b", ";">>,
    \* a use of B whose argument is two tokens long
    <<"B", "<", "const", "char", ">", "d", ";">>,
    \* a use of A as the second parameter of a function
    <<"void", "g", "(", "int", "x", ",", "A", "<", "int", ">", "y", ")", ";">>,
    \* a use of A with one argument too many, as the parameter of a function
    <<"void", "h", "(", "A", "<", "int", ",", "int", ">", "y", ")", ";">>,
    \* a class template nested in a class, used in its own body only
    <<"struct", "X", "{", "template", "<", "class", "T", ">", "struct", "V",
      "{", "V", "<", "int", ">", "*", "n", ";", "}", ";", "}", ";">>,
    \* a second class template, used as the argument of a use of A
    <<"template", "<", "class", "T", ">", "struct", "S", "{", "}", ";",
      "A", "<", "S", "<", "int", ">", ">", "e", ";">>,
    \* a member function of A defined outside the class
    <<"template", "<", "class", "T", ">", "void", "A", "<", "T", ">", "::", "g",
      "(", ")", "{", "}">>,
    \* a class template whose default argument holds parentheses, and a use
    <<"template", "<", "class", "T", ",", "class", "U", "=", "int", "(", "*", ")",
      "(", ")", ">", "struct", "P", "{", "}", ";",
      "P", "<", "char", ">", "p", ";">>,
    \* a class template and two uses whose argument list is closed by ">>"
    <<"template", "<", "class", "T", ">", "struct", "A", "{", "T", "m", ";", "}", ";",
      "A", "<", "S", "<", "int", ">>", "e", ";",
      "A", "<", "S", "<", "int", ">>", "f", ";">>
>>

RECURSIVE InputsOf(_)
\* the concatenations of n programs
InputsOf(n) ==
    IF n = 0 THEN {<<>>}
    ELSE {Programs[k] \o rest : k \in 1..Len(Programs), rest \in InputsOf(n - 1)}

Inputs == UNION {InputsOf(n) : n \in 1..MaxFrags}

\* Token lists with a class template that is used in its own body, so that
\* every copy of the body brings a new use site: with the argument N + 1, a
\* new one each time, and with the argument T, the same one again.
RecursivePrograms == <<
    <<"template", "<", "int", "N", ">", "struct", "R", "{",
      "R", "<", "N", "+", "1", ">", "*", "r", ";", "}", ";",
      "R", "<", "0", ">", "x", ";">>,
    <<"template", "<", "class", "T", ">", "struct", "R", "{",
      "R", "<", "T", ">", "*", "r", ";", "}", ";",
      "R", "<", "int", ">", "x", ";">>
>>

RecursiveInputs ==
    {RecursivePrograms[1], RecursivePrograms[2],
     Programs[1] \o RecursivePrograms[1], RecursivePrograms[1] \o Programs[2]}

\* Token lists with declarations and uses of further forms; the pass is run on
\* each of them and on each two of them in a row.
CasePrograms == <<
    \* a class template in a namespace
    <<"namespace", "NS", "{",
      "template", "<", "class", "T", ">", "struct", "A", "{", "T", "m", ";", "}", ";", "}">>,
    \* a forward declaration of a class template and a use
    <<"template", "<", "class", "T", ">", "struct", "F", ";",
      "F", "<", "int", ">", "*", "p", ";">>,
    \* a function template and a use
    <<"template", "<", "class", "T", ">", "T", "f", "(", "T", "x", ")",
      "{", "return", "x", ";", "}",
      "int", "z", "=", "f", "<", "int", ">", "(", "3", ")", ";">>,
    \* a class template used as its own argument, closed by "> >"
    <<"template", "<", "class", "T", ">", "struct", "V", "{", "}", ";",
      "V", "<", "V", "<", "int", ">", ">", "w", ";">>,
    \* the same, closed by ">>"
    <<"template", "<", "class", "T", ">", "struct", "V", "{", "}", ";",
      "V", "<", "V", "<", "int", ">>", "w", ";">>,
    \* a class template used with an argument that is a sum
    <<"template", "<", "class", "T", ">", "struct", "S", "{", "}", ";",
      "S", "<", "1", "+", "2", ">", "s", ";">>,
    \* a class template and a use
    <<"template", "<", "class", "T", ">", "struct", "A", "{", "T", "m", ";", "}", ";",
      "A", "<", "int", ">", "a", ";">>,
    \* a class template with a class template in its body, and a use of each
    <<"template", "<", "class", "T", ">", "struct", "A", "{",
      "template", "<", "class", "U", ">", "struct", "B", "{", "U", "v", ";", "}", ";",
      "B", "<", "char", ">", "b", ";", "T", "m", ";", "}", ";",
      "A", "<", "int", ">", "a", ";">>
>>

CaseInputs ==
    {CasePrograms[k] : k \in 1..Len(CasePrograms)} \cup
    {CasePrograms[k] \o CasePrograms[l] : k, l \in 1..Len(CasePrograms)}

\* Token lists in which a member of a class template is named by
\* "Name < .. > :: ident (", and a list in which a use site stands in a
\* condition that simplifyCalculations erases; the pass is run on each of
\* them and on each two of them in a row.
MemberPrograms == <<
    \* a call of a member of a class template declared in a class
    <<"struct", "X", "{",
      "template", "<", "class", "T", ">", "struct", "V", "{", "int", "g", "(", ")", ";", "}", ";",
      "V", "<", "int", ">", "v", ";", "}", ";",
      "int", "y", "=", "X", "::", "V", "<", "int", ">", "::", "g", "(", ")", ";">>,
    \* a call of a member behind the declaration and a use
    <<"template", "<", "class", "T", ">", "struct", "A", "{", "T", "m", ";", "}", ";",
      "A", "<", "int", ">", "a", ";",
      "int", "y", "=", "A", "<", "int", ">", "::", "g", "(", ")", ";">>,
    \* a member function implemented outside the class
    <<"template", "<", "class", "T", ">", "struct", "A", "{", "void", "f", "(", ")", ";", "}", ";",
      "template", "<", "class", "T", ">", "void", "A", "<", "T", ">", "::", "f", "(", ")",
      "{", "}",
      "A", "<", "int", ">", "a", ";">>,
    \* a use in the body of the declaration, a use, and a use in a condition
    \* that starts with "0 &&"
    <<"template", "<", "class", "T", ">", "struct", "A", "{", "B", "<", "T", ">", "b", ";", "}", ";",
      "A", "<", "int", ">", "a", ";",
      "int", "x", "=", "0", "&&", "g", "(", "A", "<", "char", ">", "(", "1", ")", ")", ";">>
>>

MemberInputs ==
    {MemberPrograms[k] : k \in 1..Len(MemberPrograms)} \cup
    {MemberPrograms[k] \o MemberPrograms[l] : k, l \in 1..Len(MemberPrograms)}

\* the tokenizer's links between "(" ")", "[" "]" and "{" "}": level[k] is
\* the number of brackets open after lexeme k, and a bracket is linked to the
\* nearest bracket of the other kind that brings it back to its level
LinkBrackets(in, i) ==
    LET opening == {"(", "[", "{"}
        closing == {")", "]", "}"}
        level == [k \in 1..Len(in) |->
                     Cardinality({j \in 1..k : in[j] \in opening}) -
                     Cardinality({j \in 1..k : in[j] \in closing})]
    IN IF in[i] \in opening
       THEN FirstIn({j \in (i + 1)..Len(in) : in[j] \in closing /\ level[j] = level[i] - 1})
       ELSE IF in[i] \in closing
       THEN LastIn({j \in 1..(i - 1) : in[j] \in opening /\ level[j] = level[i] + 1})
       ELSE Null

\* the token list the tokenizer hands over for the lexemes in
Tokenize(in) ==
    [i \in 1..Len(in) |-> [NewTok(i, in[i], {}) EXCEPT !.link = LinkBrackets(in, i)]]

\* the lexemes of a token list
Lexemes(s) == [i \in 1..Len(s) |-> s[i].str]

\* the text that closes the bracket x
Closer(x) == IF x = "(" THEN ")" ELSE IF x = "[" THEN "]" ELSE "}"

RECURSIVE SeqsOf(_, _)
\* the sequences of n elements of the set
SeqsOf(set, n) ==
    IF n = 0 THEN {<<>>}
    ELSE {<<x>> \o rest : x \in set, rest \in SeqsOf(set, n - 1)}

\* Token lists for removeTemplate: the head of a declaration followed by up to
\* MaxBody tokens, at the front of the list or behind two tokens.  An opening
\* bracket has its partner, as the tokenizer leaves it; a closing bracket may
\* have none (garbage code).
RemoveInputs ==
    LET lists == {pre \o <<"template", "<", "class", "T", ">">> \o body :
                     pre \in {<<>>, <<"x", ";">>},
                     body \in UNION {SeqsOf({"A", "{", "}", "(", ")", ";"}, n) :
                                        n \in 1..MaxBody}}
        Paired(in, i) == LET j == LinkBrackets(in, i)
                         IN j # Null /\ in[j] = Closer(in[i]) /\ LinkBrackets(in, j) = i
    IN {in \in lists : \A i \in 1..Len(in) :
            /\ in[i] \in {"(", "{"} => Paired(in, i)
            /\ in[i] \in {")", "}"} =>
                   LinkBrackets(in, i) = Null \/ Paired(in, LinkBrackets(in, i))}

\* ------------------------------------------------------ cleanupAfterSimplify
RECURSIVE SpecializationEnd(_, _)
\* the walk from "template < > %var%" to the end of the declaration: the ";"
\* or the token after the "}" of its body, null when another token than a
\* name, "::", "<", ">", ">>" or "," stands before them or the list ends;
\* ub: a "{" without a link was dereferenced
SpecializationEnd(s, end) ==
    IF ~Valid(s, end) THEN [end |-> Null, ub |-> FALSE]
    ELSE IF s[end].str = ";" THEN [end |-> end, ub |-> FALSE]
    ELSE IF s[end].str = "{"
    THEN [end |-> Nx(s, Link(s, end)), ub |-> Link(s, end) = Null]
    ELSE IF ~(IsVar(s, end) \/ s[end].str \in {"::", "<", ">", ">>", ","})
    THEN [end |-> Null, ub |-> FALSE]
    ELSE SpecializationEnd(s, Nx(s, end))

RECURSIVE CollapseArguments(_, _, _)
\* while (Token::Match(tok2, "%type% ,") || Token::Match(tok2, "%num% ,")):
\* the text gathered and the token the loop stops at
CollapseArguments(s, tok2, type) ==
    IF (IsType(s, tok2) \/ IsNumber(s, tok2)) /\ StrAt(s, tok2, 1) = ","
    THEN CollapseArguments(s, At(s, tok2, 2), type \o s[tok2].str \o ",")
    ELSE [tok2 |-> tok2, type |-> type]

\* every token counts as the front of a statement
AtStatementStartAlways(s, tok) == TRUE

\* the "%type% <" branch stands at the front of the list or behind a ";"
AtStatementStart(s, tok) == Pv(s, tok) = Null \/ Str(s, Pv(s, tok)) = ";"

RECURSIVE CleanupAfterSimplifyLoop(_, _, _)
\* the loop of cleanupAfterSimplify from the token tok0 the for statement
\* moved to; goback: the token before it is visited once more
CleanupAfterSimplifyLoop(s, tok0, goback) ==
    IF ~Valid(s, tok0) THEN [toks |-> s, ub |-> FALSE]
    ELSE LET tok == IF goback THEN Pv(s, tok0) ELSE tok0
         IN IF s[tok].str = "("
            THEN IF Link(s, tok) = Null THEN [toks |-> s, ub |-> TRUE]
                 ELSE CleanupAfterSimplifyLoop(s, Nx(s, Link(s, tok)), FALSE)
            ELSE IF MatchSeq(s, tok, <<"template", "<", ">">>) /\ IsVar(s, At(s, tok, 3))
            THEN LET e == SpecializationEnd(s, tok)
                 IN IF e.ub THEN [toks |-> s, ub |-> TRUE]
                    ELSE IF e.end = Null
                    THEN CleanupAfterSimplifyLoop(s, Nx(s, tok), FALSE)
                    ELSE LET s1 == EraseHead(s, tok, e.end)
                         IN CleanupAfterSimplifyLoop(s1, Nx(s1, tok), FALSE)
            ELSE IF IsType(s, tok) /\ StrAt(s, tok, 1) = "<" /\ AtStatementStart(s, tok)
            THEN LET a == CollapseArguments(s, At(s, tok, 2), "")
                     tok2 == a.tok2
                 IN IF (IsType(s, tok2) \/ IsNumber(s, tok2))
                       /\ StrAt(s, tok2, 1) = ">" /\ StrAt(s, tok2, 2) = "("
                    THEN LET type == a.type \o s[tok2].str
                             s1 == SetStr(s, tok, s[tok].str \o "<" \o type \o ">", "name")
                             s2 == EraseTokens(s1, tok, At(s1, tok2, 2))
                         IN CleanupAfterSimplifyLoop(s2, Nx(s2, tok), tok = 1)
                    ELSE CleanupAfterSimplifyLoop(s, Nx(s, tok), FALSE)
            ELSE CleanupAfterSimplifyLoop(s, Nx(s, tok), FALSE)

\* TemplateSimplifier::cleanupAfterSimplify(tokens)
CleanupAfterSimplify(s) == CleanupAfterSimplifyLoop(s, 1, FALSE)

\* ------------------------------------------------------------------- state
VARIABLES
    tokens,                 \* the token list
    nextId,                 \* the id the next new token gets
    pc,                     \* where simplifyTemplates is
    run,                    \* the number of the call of simplifyTemplates
    expandedtemplates,      \* the set of names of the expanded templates
    codeWithTemplates,      \* the flag of the tokenizer
    templates,              \* the heads of the declarations
    templateInstantiations, \* the name tokens of the use sites
    templates2,             \* the declarations that were instantiated
    iter1,                  \* the reverse iterator over templates, an index
    it,                     \* the iterator over templates2, an index
    call,                   \* the locals of simplifyTemplateInstantiations
    hist,                   \* history: what the calls did
    clock                   \* the parity of the number of steps executed

vars == <<tokens, nextId, pc, run, expandedtemplates, codeWithTemplates, templates,
          templateInstantiations, templates2, iter1, it, call, hist, clock>>

NoCall == [tok |-> Null, head |-> Null, formals |-> <<>>, name |-> "", isfunc |-> FALSE,
           amount |-> 0, recursiveCount |-> 0, instantiated |-> FALSE, iter2 |-> 0]

NoEvent == [op |-> "", out |-> "", decl |-> Null, use |-> Null, name |-> "",
            copied |-> 0, rewritten |-> <<>>, rescans |-> 0, how |-> "", at |-> Null,
            ret |-> 0]

\* hist.before: the list before the last step;  event: the last step;
\* first: the list the first call returned;  expanded: the names expandTemplate
\* was called with;  specialized: the names expandSpecialized returned;
\* begun: the declarations simplifyTemplateInstantiations was called with;
\* bailed: those it found no name for;  removed: those passed to removeTemplate;
\* headers: the tokens after the head up to the ">" of the declarations it
\* returned true for;  generated: the patterns of the use sites it rewrote;
\* broke: the calls that left the loop at a use site with the wrong number of
\* arguments, with the use sites that came later in the list;  decls: the
\* list getTemplateDeclarations returned;  nid0: the tokens with this id or a
\* greater one were made by this call of simplifyTemplates;  spliced, copied:
\* the tokens made by useDefaultArgumentValues and by expandTemplate;  input:
\* the lexemes of the list the call was given
NoHist == [input |-> <<>>, before |-> <<>>, event |-> NoEvent, first |-> <<>>, expanded |-> <<>>,
           specialized |-> {}, begun |-> {}, bailed |-> {}, removed |-> {},
           headers |-> {}, generated |-> {}, broke |-> {}, decls |-> <<>>,
           nid0 |-> 1, spliced |-> {}, copied |-> {}]

Range(q) == {q[k] : k \in 1..Len(q)}

\* the state in which a function of the simplifier is called on the lexemes
\* in; at "S1" it is simplifyTemplates
InitOn(in, at) ==
    /\ tokens = Tokenize(in)
    /\ nextId = Len(in) + 1
    /\ hist = [NoHist EXCEPT !.nid0 = Len(in) + 1, !.input = in]
    /\ pc = at
    /\ run = 1
    /\ expandedtemplates = {}
    /\ codeWithTemplates = FALSE
    /\ templates = <<>>
    /\ templateInstantiations = <<>>
    /\ templates2 = <<>>
    /\ iter1 = 0
    /\ it = 0
    /\ call = NoCall
    /\ clock = 0

Init == \E in \in Inputs : InitOn(in, "S1")

\* The program has executed one more step.  A pass through a loop that leaves
\* every object as it was is a step all the same: the clock tells it from the
\* program standing still.
Tick == clock' = 1 - clock

\* std::set<std::string> expandedtemplates(expandSpecialized(tokenlist.front()));
ExpandSpecializedStep(r) ==
    /\ tokens' = r.toks
    /\ expandedtemplates' = r.names
    /\ pc' \in (IF r.ub THEN {"crashed", "S2"} ELSE {"S2"})
    /\ hist' = [hist EXCEPT !.before = tokens, !.specialized = r.names,
                            !.event = [NoEvent EXCEPT !.op = "expandSpecialized"]]

CallExpandSpecialized ==
    /\ pc = "S1"
    /\ ExpandSpecializedStep(ExpandSpecialized(tokens))
    /\ UNCHANGED <<nextId, run, codeWithTemplates, templates, templateInstantiations,
                   templates2, iter1, it, call>>

\* templates(getTemplateDeclarations(...)); if (templates.empty()) return;
GetTemplateDeclarationsStep(r) ==
    /\ templates' = r.templates
    /\ codeWithTemplates' = r.flag
    /\ pc' = IF r.templates = <<>> THEN "done" ELSE "typename"
    /\ hist' = [hist EXCEPT !.before = tokens, !.decls = r.templates,
                            !.event = [NoEvent EXCEPT !.op = "getTemplateDeclarations"]]

CallGetTemplateDeclarations ==
    /\ pc = "S2"
    /\ GetTemplateDeclarationsStep(GetTemplateDeclarations(tokens, codeWithTemplates))
    /\ UNCHANGED <<tokens, nextId, run, expandedtemplates, templateInstantiations,
                   templates2, iter1, it, call>>

\* Remove "typename" unless used in template arguments..
RemoveTypename ==
    /\ pc = "typename"
    /\ tokens' = RemoveTypenameLoop(tokens, 1)
    /\ pc' = "S3"
    /\ hist' = [hist EXCEPT !.before = tokens,
                            !.event = [NoEvent EXCEPT !.op = "typename"]]
    /\ UNCHANGED <<nextId, run, expandedtemplates, codeWithTemplates, templates,
                   templateInstantiations, templates2, iter1, it, call>>

\* templateInstantiations(getTemplateInstantiations(...)); if empty return;
CallGetTemplateInstantiations ==
    /\ pc = "S3"
    /\ templateInstantiations' = GetTemplateInstantiations(tokens)
    /\ pc' = IF templateInstantiations' = <<>> THEN "done" ELSE "defaults"
    /\ hist' = [hist EXCEPT !.before = tokens,
                            !.event = [NoEvent EXCEPT !.op = "getTemplateInstantiations"]]
    /\ UNCHANGED <<tokens, nextId, run, expandedtemplates, codeWithTemplates, templates,
                   templates2, iter1, it, call>>

\* useDefaultArgumentValues(templates, &templateInstantiations);
UseDefaultArgumentValuesStep(r) ==
    /\ tokens' = r.toks
    /\ templateInstantiations' = r.insts
    /\ nextId' = r.nid
    /\ pc' \in (IF r.ub THEN {"crashed", "S4"} ELSE {"S4"})
    /\ hist' = [hist EXCEPT !.before = tokens, !.spliced = nextId..(r.nid - 1),
                            !.event = [NoEvent EXCEPT !.op = "useDefaultArgumentValues"]]

\* a faulty variant of RBegin: the loop starts at the first declaration
RBeginFront(list) == IF list = <<>> THEN 0 ELSE 1

\* templates.rbegin(): the loop over the declarations starts at the last one
RBegin(list) == Len(list)

CallUseDefaultArgumentValues ==
    /\ pc = "defaults"
    /\ UseDefaultArgumentValuesStep(
           UseDefaultArgumentValues(tokens, templates, templateInstantiations, nextId))
    /\ iter1' = RBegin(templates)
    /\ templates2' = <<>>
    /\ UNCHANGED <<run, expandedtemplates, codeWithTemplates, templates, it, call>>

\* a faulty variant of Returned: the declaration is pushed whatever the call
\* returned
ReturnedAlways(list, head, instantiated) == Append(list, head)

\* if (instantiated) templates2.push_back(*iter1);
Returned(list, head, instantiated) == IF instantiated THEN Append(list, head) ELSE list

\* the ids of the tokens after the head of a declaration up to the ">" that
\* closes its parameter list
HeaderIds(s, head, gt) ==
    IF head = Null \/ gt = Null THEN {} ELSE {s[j].id : j \in (head + 1)..gt}

\* the return of simplifyTemplateInstantiations into the loop over the
\* declarations, and the step of the reverse iterator
ReturnToLoop(head, instantiated, ev) ==
    /\ templates2' = Returned(templates2, head, instantiated)
    /\ iter1' = iter1 - 1
    /\ pc' = IF iter1 > 1 THEN "S4" ELSE IF templates2' = <<>> THEN "done" ELSE "S5"
    /\ it' = 1
    /\ call' = NoCall
    /\ hist' = [hist EXCEPT
                  !.before = tokens, !.event = ev,
                  !.begun = hist.begun \cup {head},
                  !.bailed = IF ev.out = "bail" THEN hist.bailed \cup {head} ELSE hist.bailed,
                  !.broke = IF ev.out = "mismatch"
                            THEN hist.broke \cup
                                 {[name |-> call.name, arity |-> Len(call.formals),
                                   later |-> {templateInstantiations[j] :
                                       j \in (call.iter2 + 1)..Len(templateInstantiations)}]}
                            ELSE hist.broke,
                  !.headers = IF instantiated
                              THEN hist.headers \cup
                                   HeaderIds(tokens', Pos(tokens', head), Pos(tokens', call.tok))
                              ELSE hist.headers]

\* simplifyTemplateInstantiations up to its loop over the use sites
SimplifyTemplateInstantiationsBegin ==
    /\ pc = "S4"
    /\ LET head == Pos(tokens, templates[iter1])
           gt == FindStr(tokens, At(tokens, head, 2), ">")
           namepos == GetTemplateNamePosition(tokens, gt)
           ev == [NoEvent EXCEPT !.op = "begin", !.decl = templates[iter1]]
       IN IF gt = Null
          THEN /\ ReturnToLoop(templates[iter1], FALSE, [ev EXCEPT !.out = "eof"])
               /\ UNCHANGED <<tokens, nextId, run, expandedtemplates, codeWithTemplates,
                              templates, templateInstantiations>>
          ELSE IF namepos = -1
          THEN /\ ReturnToLoop(templates[iter1], FALSE, [ev EXCEPT !.out = "bail"])
               /\ UNCHANGED <<tokens, nextId, run, expandedtemplates, codeWithTemplates,
                              templates, templateInstantiations>>
          ELSE /\ call' = [tok |-> tokens[gt].id, head |-> templates[iter1],
                           formals |-> TypeParameters(tokens, At(tokens, head, 2)),
                           name |-> StrAt(tokens, gt, namepos),
                           isfunc |-> StrAt(tokens, gt, namepos + 1) = "(",
                           amount |-> Len(templateInstantiations),
                           recursiveCount |-> 0, instantiated |-> FALSE, iter2 |-> 1]
               /\ pc' = "loop"
               /\ hist' = [hist EXCEPT !.before = tokens, !.event = [ev EXCEPT !.out = "ok"]]
               /\ UNCHANGED <<tokens, nextId, run, expandedtemplates, codeWithTemplates,
                              templates, templateInstantiations, templates2, iter1, it>>

\* expandedtemplates.find(newName) != expandedtemplates.end()
IsExpanded(names, newName) == newName \in names

\* a faulty variant of NextUse: the iterator is not moved
NextUseStays(iter2) == iter2

\* ++iter2
NextUse(iter2) == iter2 + 1

\* the place of the iterator iter2 in the list after remove() took out the
\* elements that are not in kept
IterAfterRemove(insts, k, kept) ==
    1 + Cardinality({j \in 1..(k - 1) : insts[j] \in Range(kept)})

\* what a pass through the body of the loop over the use sites gives when it
\* ends in out without a use site being rewritten; a holds the list, the
\* instantiation list, the set of names, the next id and the locals
NotRewritten(a, out) ==
    [out |-> out, toks |-> a.toks, insts |-> a.insts, nid |-> a.nid, names |-> a.names,
     newName |-> "", pattern |-> <<>>, rewritten |-> <<>>,
     use |-> IF out = "end" THEN Null ELSE a.insts[a.call.iter2],
     call |-> [a.call EXCEPT !.iter2 = NextUse(a.call.iter2)]]

\* "Replace all these template usages..": r is what ReplaceUsages gave
Rewritten(a, out, newName, u, r) ==
    [out |-> out, toks |-> r.toks, insts |-> r.insts, nid |-> a.nid,
     names |-> a.names \cup {newName}, newName |-> newName, pattern |-> u.pattern,
     rewritten |-> r.rewritten, use |-> a.insts[a.call.iter2],
     call |-> [a.call EXCEPT !.instantiated = a.call.instantiated \/ out = "expanded",
                             !.iter2 = NextUse(IterAfterRemove(a.insts, a.call.iter2,
                                                               r.insts))]]

\* after the if around expandTemplate: x is what the call gave, a1 the state
\* it left
UseSiteExpanded(tok2, u, newName, out, x, a1) ==
    IF x.assertFailed \/ x.ranOff THEN NotRewritten(a1, "abort")
    ELSE IF x.endless THEN NotRewritten(a1, "endless")
    ELSE Rewritten(a1, out, newName, u,
             ReplaceUsages(a1.toks, a1.insts, tok2,
                           [pattern |-> u.pattern, newName |-> newName], u.types))

UseSiteExpand(a, tok2, u, newName, out, x) ==
    UseSiteExpanded(tok2, u, newName, out, x,
                    [a EXCEPT !.toks = x.toks, !.insts = x.insts, !.nid = x.nid])

\* "New classname/funcname..": expandTemplate is called unless the name is in
\* the set
UseSiteNamed(a, tok2, u, newName) ==
    IF IsExpanded(a.names, newName)
    THEN UseSiteExpand(a, tok2, u, newName, "known",
             [toks |-> a.toks, insts |-> a.insts, nid |-> a.nid,
              assertFailed |-> FALSE, ranOff |-> FALSE, endless |-> FALSE])
    ELSE UseSiteExpand(a, tok2, u, newName, "expanded",
             ExpandTemplate(a.toks, a.insts, a.nid,
                 [tok |-> a.call.tok, name |-> a.call.name, formals |-> a.call.formals,
                  newName |-> newName, actuals |-> u.types]))

\* the checks on the new type u of the use site
UseSiteTyped(a, tok2, u) ==
    IF u.typeStr = "" THEN NotRewritten(a, "notype")
    ELSE IF Len(a.call.formals) # Len(u.types) THEN NotRewritten(a, "mismatch")
    ELSE UseSiteNamed(a, tok2, u, a.call.name \o "<" \o u.typeStr \o ">")

\* the body of the loop from "Token * const tok2 = *iter2;" on
UseSiteAt(a, tok2) ==
    IF tok2 = Null THEN NotRewritten(a, "dangling")
    ELSE IF a.toks[tok2].str # a.call.name THEN NotRewritten(a, "other")
    ELSE IF IsOneOf(a.toks, Pv(a.toks, tok2), {";", "{", "}", "="}) /\
            ~InstantiateMatch(a.toks, tok2, a.call.name, Len(a.call.formals),
                              IF a.call.isfunc THEN "(" ELSE "*| %var%")
    THEN NotRewritten(a, "nomatch")
    ELSE UseSiteTyped(a, tok2, UseSiteType(a.toks, tok2, a.call.name))

\* a faulty variant of UseSiteChanged: recursiveCount is not looked at
UseSiteChangedNoCap(a, changed) == UseSiteAt(a, Pos(a.toks, a.insts[a.call.iter2]))

\* the body of the loop after its first if; changed: the size of the list
\* was seen to have changed
UseSiteChanged(a, changed) ==
    IF changed /\ a.call.recursiveCount > MaxRecursive THEN NotRewritten(a, "cap")
    ELSE UseSiteAt(a, Pos(a.toks, a.insts[a.call.iter2]))

\* what one pass through the body of the loop over the use sites does
UseSite(a) ==
    IF a.call.iter2 > Len(a.insts) THEN NotRewritten(a, "end")
    ELSE UseSiteChanged(IF a.call.amount # Len(a.insts)
                        THEN [a EXCEPT !.toks = SimplifyCalculations(a.toks),
                                       !.call.amount = Len(a.insts),
                                       !.call.recursiveCount = a.call.recursiveCount + 1]
                        ELSE a,
                        a.call.amount # Len(a.insts))

\* the step of the program that the pass r through the loop body makes
UseSiteStep(r, ev) ==
    /\ tokens' = r.toks
    /\ templateInstantiations' = r.insts
    /\ nextId' = r.nid
    /\ expandedtemplates' = r.names
    /\ IF r.out \in {"end", "cap", "mismatch"}
       THEN ReturnToLoop(call.head, call.instantiated, ev)
       ELSE /\ pc' \in (IF r.out \in {"abort", "endless"} THEN {"crashed"}
                        ELSE IF r.out = "dangling" THEN {"crashed", "loop"}
                        ELSE {"loop"})
            /\ call' = r.call
            /\ hist' = [hist EXCEPT
                          !.before = tokens, !.event = ev,
                          !.expanded = IF r.out = "expanded"
                                       THEN Append(hist.expanded, r.newName)
                                       ELSE hist.expanded,
                          !.copied = hist.copied \cup (nextId..(r.nid - 1)),
                          !.generated = IF r.out \in {"known", "expanded"}
                                        THEN hist.generated \cup {r.pattern}
                                        ELSE hist.generated]
            /\ UNCHANGED <<templates2, iter1, it>>
    /\ UNCHANGED <<run, codeWithTemplates, templates>>

UseSiteEvent(r) ==
    [NoEvent EXCEPT !.op = "use", !.out = r.out, !.decl = call.head, !.use = r.use,
                    !.name = r.newName, !.copied = r.nid - nextId,
                    !.rewritten = r.rewritten, !.rescans = r.call.recursiveCount]

UseSiteRun(r) == UseSiteStep(r, UseSiteEvent(r))

\* one pass of the loop over the use sites in simplifyTemplateInstantiations
SimplifyTemplateInstantiationsIter ==
    /\ pc = "loop"
    /\ UseSiteRun(UseSite([toks |-> tokens, insts |-> templateInstantiations,
                           names |-> expandedtemplates, nid |-> nextId, call |-> call]))

\* one pass of the loop over templates2 at the end of simplifyTemplates
CallRemoveTemplate ==
    /\ pc = "S5"
    /\ LET head == templates2[it]
           found == head \in Range(templates)
           r == RemoveTemplate(tokens, Pos(tokens, head))
       IN /\ tokens' = IF found THEN r.toks ELSE tokens
          /\ templates' = RemoveFirst(templates, head)
          /\ hist' = [hist EXCEPT
                        !.before = tokens,
                        !.event = [NoEvent EXCEPT !.op = "removeTemplate", !.decl = head,
                                     !.out = IF found /\ r.ret THEN "true" ELSE "false",
                                     !.how = IF found THEN r.how ELSE "",
                                     !.at = IF found THEN r.at ELSE Null],
                        !.removed = IF found THEN hist.removed \cup {head} ELSE hist.removed]
          /\ pc' \in (IF found /\ Pos(tokens, head) = Null THEN {"crashed", "S5", "done"}
                      ELSE {"S5", "done"})
          /\ pc' = "done" <=> (pc' # "crashed" /\ it = Len(templates2))
    /\ it' = it + 1
    /\ UNCHANGED <<nextId, run, expandedtemplates, codeWithTemplates,
                   templateInstantiations, templates2, iter1, call>>

\* simplifyTemplates is called again on the list it returned
SimplifyTemplatesAgain ==
    /\ pc = "done"
    /\ run < MaxRuns
    /\ run' = run + 1
    /\ pc' = "S1"
    /\ expandedtemplates' = {}
    /\ templates' = <<>>
    /\ templateInstantiations' = <<>>
    /\ templates2' = <<>>
    /\ iter1' = 0
    /\ it' = 0
    /\ call' = NoCall
    /\ hist' = [NoHist EXCEPT !.input = Lexemes(tokens),
                              !.before = tokens, !.first = tokens, !.nid0 = nextId,
                              !.event = [NoEvent EXCEPT !.op = "again"]]
    /\ UNCHANGED <<tokens, nextId, codeWithTemplates, clock>>

\* the steps of one call of simplifyTemplates
Step ==
    \/ CallExpandSpecialized /\ Tick
    \/ CallGetTemplateDeclarations /\ Tick
    \/ RemoveTypename /\ Tick
    \/ CallGetTemplateInstantiations /\ Tick
    \/ CallUseDefaultArgumentValues /\ Tick
    \/ SimplifyTemplateInstantiationsBegin /\ Tick
    \/ SimplifyTemplateInstantiationsIter /\ Tick
    \/ CallRemoveTemplate /\ Tick

Next == Step \/ SimplifyTemplatesAgain

Spec == Init /\ [][Next]_vars

\* The calls on the lists with a template used in its own body.  A call that
\* has begun goes on: the function is sequential code that nothing suspends.
Running == pc \notin {"done", "crashed"} /\ Tick

SpecRecursive ==
    (\E in \in RecursiveInputs : InitOn(in, "S1")) /\ [][Next]_vars /\ WF_clock(Running)

\* The calls on the lists of CaseInputs.
SpecCases ==
    (\E in \in CaseInputs : InitOn(in, "S1")) /\ [][Next]_vars /\ WF_clock(Running)

\* The calls on the lists of MemberInputs.
SpecMembers ==
    (\E in \in MemberInputs : InitOn(in, "S1")) /\ [][Next]_vars /\ WF_clock(Running)

\* removeTemplate called on its own, on the head of a declaration in a list
\* of RemoveInputs
RemoveTemplateCall ==
    /\ pc = "remove"
    /\ \E tok \in {i \in 1..Len(tokens) : tokens[i].str = "template"} :
          LET r == RemoveTemplate(tokens, tok)
          IN /\ tokens' = r.toks
             /\ hist' = [hist EXCEPT
                           !.before = tokens,
                           !.event = [NoEvent EXCEPT
                                        !.op = "removeTemplate", !.decl = tokens[tok].id,
                                        !.out = IF r.ret THEN "true" ELSE "false",
                                        !.how = r.how, !.at = r.at]]
    /\ pc' = "removed"
    /\ Tick
    /\ UNCHANGED <<nextId, run, expandedtemplates, codeWithTemplates, templates,
                   templateInstantiations, templates2, iter1, it, call>>

SpecRemoveTemplate ==
    (\E in \in RemoveInputs : InitOn(in, "remove")) /\ [][RemoveTemplateCall]_vars

RECURSIVE CommaList(_)
\* the token sequences of q with a "," between them
CommaList(q) == IF Len(q) = 1 THEN q[1] ELSE q[1] \o <<",">> \o CommaList(Tail(q))

\* Token lists for cleanupAfterSimplify: "A < a1 , .. , an > ( ) ;" with up to
\* MaxArgs arguments, each one type, one number or the two tokens "int *",
\* at the front of the list, behind a ";", behind a "}", behind a "=", between
\* parentheses, and behind an explicit specialization that ends at a ";" or
\* at its body
CleanupInputs ==
    LET arg == {<<"int">>, <<"1">>, <<"B">>, <<"int", "*">>}
        args == {CommaList(q) : q \in UNION {SeqsOf(arg, n) : n \in 1..MaxArgs}}
        special == <<"template", "<", ">", "struct", "B", "<", "int", ">">>
        around == {<< <<>>, <<>> >>, << <<"x", ";">>, <<>> >>, << <<"{", "}">>, <<>> >>,
                   << <<"x", "=">>, <<>> >>, << <<"f", "(">>, <<")">> >>,
                   << special \o <<";">>, <<>> >>, << special \o <<"{", "}">>, <<>> >>}
    IN {c[1] \o <<"A", "<">> \o a \o <<">", "(", ")">> \o c[2] \o <<";">> :
            a \in args, c \in around}

\* cleanupAfterSimplify called on a list of CleanupInputs
CleanupAfterSimplifyCall ==
    /\ pc = "cleanup"
    /\ LET r == CleanupAfterSimplify(tokens)
       IN /\ tokens' = r.toks
          /\ pc' \in (IF r.ub THEN {"crashed", "cleaned"} ELSE {"cleaned"})
    /\ hist' = [hist EXCEPT !.before = tokens,
                            !.event = [NoEvent EXCEPT !.op = "cleanupAfterSimplify"]]
    /\ Tick
    /\ UNCHANGED <<nextId, run, expandedtemplates, codeWithTemplates, templates,
                   templateInstantiations, templates2, iter1, it, call>>

SpecCleanup ==
    (\E in \in CleanupInputs : InitOn(in, "cleanup")) /\ [][CleanupAfterSimplifyCall]_vars

\* Token lists for templateParameters: "A <" and up to MaxArgs arguments with
\* "," between them: a type, a number, a pointer to a function, an array, a
\* nested list with one or two arguments, a nested list of a nested list
\* closed by "> >" or by ">>", and the expression "1 + 2"; closed by ">",
\* with ">>" for the "> >" of a last nested argument as well, or cut short by
\* ";", "{", "}" or the end of the list; and the empty list "A < >"
ParameterInputs ==
    LET arg == {<<"int">>, <<"1">>, <<"int", "(", "*", ")", "(", "int", ",", "int", ")">>,
                <<"int", "[", "1", ",", "2", "]">>, <<"B", "<", "int", ">">>,
                <<"B", "<", "int", ",", "char", ">">>,
                <<"B", "<", "V", "<", "int", ">", ">">>, <<"B", "<", "V", "<", "int", ">>">>,
                <<"1", "+", "2">>}
        lists == {CommaList(q) : q \in UNION {SeqsOf(arg, n) : n \in 1..MaxArgs}}
        Merged(l) == IF l[Len(l)] = ">" THEN {SubSeq(l, 1, Len(l) - 1) \o <<">>">>} ELSE {}
        closed == UNION {{l \o <<">">>} \cup Merged(l) : l \in lists}
        open == {l \o e : l \in lists, e \in {<<>>, <<";">>, <<"{", "}">>, <<"}">>}}
    IN {<<"A", "<">> \o l \o <<"x", ";">> : l \in closed \cup {<<">">>}}
           \cup {<<"A", "<">> \o l : l \in open}

\* templateParameters called on a token of a list of ParameterInputs, or on
\* the null token
TemplateParametersCall ==
    /\ pc = "count"
    /\ \E tok \in 0..Len(tokens) :
          hist' = [hist EXCEPT !.before = tokens,
                               !.event = [NoEvent EXCEPT
                                            !.op = "templateParameters", !.at = tok,
                                            !.ret = TemplateParameters(tokens, tok)]]
    /\ pc' = "counted"
    /\ Tick
    /\ UNCHANGED <<tokens, nextId, run, expandedtemplates, codeWithTemplates, templates,
                   templateInstantiations, templates2, iter1, it, call>>

SpecParameters ==
    (\E in \in ParameterInputs : InitOn(in, "count")) /\ [][TemplateParametersCall]_vars

\* the binary operators simplifyNumericCalculations folds, and those that
\* can stand beside the two numbers
FoldOps == {"+", "-", "*", "/", "%", "&", "|", "^", "<<", ">>"}
NeighbourOps == FoldOps \cup ComparisonOps \cup {"&&", "||"}

\* Token lists for simplifyNumericCalculations: "x = n0 opL n1 op n2 ;",
\* "x = n1 op n2 opR n3 ;" and "x = n1 op n2 ;" with the numbers 0..MaxOperand,
\* and "x = 1 opL n1 op n2 opR 2 ;" with n1 and n2 out of 1 and 2
FoldInputs ==
    LET num == {IntToStr(n) : n \in 0..MaxOperand}
        few == {"1", "2"}
        one == {<<n1, op, n2>> : n1 \in num, op \in FoldOps, n2 \in num}
        left == {<<n0, opL>> \o e : n0 \in num, opL \in NeighbourOps, e \in one}
        right == {e \o <<opR, n3>> : e \in one, opR \in NeighbourOps, n3 \in num}
        both == {<<"1", opL, n1, op, n2, opR, "2">> :
                    opL \in NeighbourOps, n1 \in few, op \in FoldOps,
                    n2 \in few, opR \in NeighbourOps}
    IN {<<"x", "=">> \o e \o <<";">> : e \in one \cup left \cup right \cup both}

\* simplifyNumericCalculations called on a token of a list of FoldInputs
SimplifyNumericCalculationsCall ==
    /\ pc = "fold"
    /\ \E tok \in 1..Len(tokens) :
          /\ tokens' = SimplifyNumericCalculations(tokens, tok)
          /\ hist' = [hist EXCEPT !.before = tokens,
                                  !.event = [NoEvent EXCEPT
                                               !.op = "simplifyNumericCalculations",
                                               !.at = tok]]
    /\ pc' = "folded"
    /\ Tick
    /\ UNCHANGED <<nextId, run, expandedtemplates, codeWithTemplates, templates,
                   templateInstantiations, templates2, iter1, it, call>>

SpecFold ==
    (\E in \in FoldInputs : InitOn(in, "fold")) /\ [][SimplifyNumericCalculationsCall]_vars

\* Token lists for expandTemplate: a class template with the parameters T
\* and U, and behind it a use site "A < a1 , a2 > a ;" whose arguments are
\* a type, a pointer, a nested list with one or two arguments and a nested
\* list of a nested list closed by "> >" or by ">>"; the list of the use
\* site is closed by ">", or by ">>" with the last nested list
ExpandInputs ==
    LET decl == <<"template", "<", "class", "T", ",", "class", "U", ">", "struct", "A">>
        body == {<<"{", "T", "m", ";", "U", "n", ";", "A", "*", "p", ";", "}", ";">>,
                 <<"{", "A", "<", "T", ",", "U", ">", "*", "p", ";",
                   "T", "f", "(", "U", "x", ")", "{", "return", "x", ";", "}", "}", ";">>}
        arg == {<<"int">>, <<"char", "*">>, <<"S", "<", "int", ">">>,
                <<"S", "<", "int", ",", "char", ">">>,
                <<"S", "<", "S", "<", "int", ">", ">">>, <<"S", "<", "S", "<", "int", ">>">>}
        lists == {a1 \o <<",">> \o a2 : a1 \in arg, a2 \in arg}
        Merged(l) == IF l[Len(l)] = ">" THEN {SubSeq(l, 1, Len(l) - 1) \o <<">>">>} ELSE {}
        closed == UNION {{l \o <<">">>} \cup Merged(l) : l \in lists}
    IN {decl \o b \o <<"A", "<">> \o l \o <<"a", ";">> : b \in body, l \in closed}

\* expandTemplate called as simplifyTemplateInstantiations calls it for the
\* use site behind the declaration of a list of ExpandInputs
ExpandTemplateCall ==
    /\ pc = "expand"
    /\ \E head \in {FindStr(tokens, 1, "template")} :
       \E gt \in {FindStr(tokens, At(tokens, head, 2), ">")} :
       \E name \in {StrAt(tokens, gt, GetTemplateNamePosition(tokens, gt))} :
       \E formals \in {TypeParameters(tokens, At(tokens, head, 2))} :
       \E tok2 \in {LastIn({j \in 1..Len(tokens) :
                               tokens[j].str = name /\ StrAt(tokens, j, 1) = "<"})} :
       \E u \in {UseSiteType(tokens, tok2, name)} :
       \E newName \in {name \o "<" \o u.typeStr \o ">"} :
       \E called \in {u.typeStr # "" /\ Len(formals) = Len(u.types)} :
       \E x \in {IF called
                 THEN ExpandTemplate(tokens, templateInstantiations, nextId,
                          [tok |-> tokens[gt].id, name |-> name, formals |-> formals,
                           newName |-> newName, actuals |-> u.types])
                 ELSE [toks |-> tokens, insts |-> templateInstantiations, nid |-> nextId,
                       assertFailed |-> FALSE, ranOff |-> FALSE, endless |-> FALSE]} :
          /\ tokens' = x.toks
          /\ templateInstantiations' = x.insts
          /\ nextId' = x.nid
          /\ pc' \in (IF x.assertFailed \/ x.ranOff \/ x.endless
                      THEN {"crashed"} ELSE {"expanded"})
          /\ hist' = [hist EXCEPT
                        !.before = tokens,
                        !.event = [NoEvent EXCEPT
                                     !.op = "expandTemplate", !.decl = tokens[head].id,
                                     !.use = tokens[tok2].id, !.name = newName,
                                     !.out = IF called THEN "called" ELSE "",
                                     !.copied = x.nid - nextId]]
    /\ Tick
    /\ UNCHANGED <<run, expandedtemplates, codeWithTemplates, templates, templates2,
                   iter1, it, call>>

SpecExpand ==
    (\E in \in ExpandInputs : InitOn(in, "expand")) /\ [][ExpandTemplateCall]_vars

\* ------------------------------------------------------------------ claims
Returns == pc = "done"

\* the bracket at cursor i is linked to a later one that closes it and that
\* links back
LinkedForward(s, i) ==
    /\ Link(s, i) > i
    /\ s[Link(s, i)].str = Closer(s[i].str)
    /\ Link(s, Link(s, i)) = i

AllLinked(s) ==
    \A i \in 1..Len(s) : s[i].str \in {"(", "[", "{"} => LinkedForward(s, i)

C2_InstantiatedDeclarationsRemoved ==
    Returns => \A id \in hist.headers : Pos(tokens, id) = Null

\* a return after simplifyTemplateInstantiations returned true for a
\* declaration and removeTemplate was called for it
C2_Witness ==
    Returns /\ hist.headers # {} /\ hist.removed # {} /\ hist.expanded # <<>>

\* C3: when simplifyTemplates returns, no occurrence of "BaseName < args >" is
\* left anywhere in the list for a use site that was rewritten to its mangled
\* name: every occurrence, before or after the use site, was rewritten.
C3_AllOccurrencesRewritten ==
    Returns => \A pattern \in hist.generated :
                  \A i \in 1..Len(tokens) : ~MatchSeq(tokens, i, pattern)

\* C4: when simplifyTemplates returns, every name in expandedtemplates is the
\* text of a name token of the list.
C4_NamesInStream ==
    Returns => \A name \in expandedtemplates :
                  \E i \in 1..Len(tokens) : IsName(tokens, i) /\ tokens[i].str = name

\* the texts and the bracket links of a list, the links by position
Shape(s) == [i \in 1..Len(s) |-> [str |-> s[i].str, link |-> Link(s, i)]]

\* C5: a second call of simplifyTemplates on the list the first call returned
\* returns the same list: the same texts in the same order with the same links.
C5_Idempotent == (Returns /\ run = 2) => Shape(tokens) = Shape(hist.first)

NoDuplicates(q) == \A j, k \in 1..Len(q) : q[j] = q[k] => j = k

\* C6: in one call of simplifyTemplates expandTemplate is called at most once
\* for a name and never for a name expandSpecialized returned; a use site whose
\* name is in the set already is renamed, and loses its argument list, without
\* a token being copied; and every name that was put in the set is still in it.
C6_ExpandedOnce ==
    /\ NoDuplicates(hist.expanded)
    /\ Range(hist.expanded) \cap hist.specialized = {}
    /\ (hist.event.op = "use" /\ hist.event.out = "known") =>
          /\ hist.event.copied = 0
          /\ Len(tokens) < Len(hist.before)
          /\ Str(tokens, Pos(tokens, hist.event.use)) = hist.event.name
          /\ Str(tokens, Nx(tokens, Pos(tokens, hist.event.use))) # "<"
    /\ hist.specialized \cup Range(hist.expanded) \subseteq expandedtemplates

ArgTexts(s, lt) ==
    IF FindClosingBracket(s, lt) = Null THEN <<>>
    ELSE [k \in 1..(FindClosingBracket(s, lt) - lt - 1) |-> s[lt + k].str]

RECURSIVE ValueTexts(_, _, _)
\* the texts of the default value that starts at cursor i, up to its "," or
\* ">" outside brackets
ValueTexts(s, i, depth) ==
    IF ~Valid(s, i) \/ (depth = 0 /\ s[i].str \in {",", ">"}) THEN <<>>
    ELSE <<s[i].str>> \o
         ValueTexts(s, i + 1,
                    IF s[i].str \in {"(", "[", "<"} THEN depth + 1
                    ELSE IF s[i].str \in {")", "]", ">"} THEN depth - 1
                    ELSE depth)

RECURSIVE MissingTexts(_, _)
\* a comma and the texts of the default value for each "=" of eq
MissingTexts(s, eq) ==
    IF eq = <<>> THEN <<>>
    ELSE <<",">> \o ValueTexts(s, Pos(s, Head(eq)) + 1, 0) \o MissingTexts(s, Tail(eq))

\* the use site id of the class of the declaration p (what ScanParameters
\* found in its header) has k arguments, fewer than the declaration has
\* parameters, and the parameters it leaves out have default values
LeavesOutDefaults(s, id, p, k) ==
    /\ Pos(s, id) # Null
    /\ s[Pos(s, id)].str = p.classname
    /\ k > 0
    /\ k < p.templatepar
    /\ p.templatepar - k <= Len(p.eq)

\* the use site id was filled up with the default values of the declaration p
FilledUp(before, after, id, p, k) ==
    /\ TemplateParameters(after, Nx(after, Pos(after, id))) = p.templatepar
    /\ ArgTexts(after, Nx(after, Pos(after, id))) =
          ArgTexts(before, Nx(before, Pos(before, id))) \o
          MissingTexts(before, SubSeq(p.eq, Len(p.eq) - (p.templatepar - k) + 1, Len(p.eq)))

\* the declaration with head h had default values and has none left
DefaultsErased(before, after, h) ==
    ScanParameters(after, Pos(after, h), 1, <<>>).eq = <<>>

\* C8: after useDefaultArgumentValues every use site of a class template that
\* left out parameters with default values has as many arguments as the
\* declaration has parameters, the added ones being the texts of the default
\* values, and the declaration header has no "= value" left.
C8_DefaultsFilledIn ==
    hist.event.op = "useDefaultArgumentValues" =>
        \A h \in Range(templates) :
            LET p == ScanParameters(hist.before, Pos(hist.before, h), 1, <<>>)
            IN (p.eq # <<>> /\ p.classname # "") =>
                  /\ DefaultsErased(hist.before, tokens, h)
                  /\ \A id \in Range(templateInstantiations) :
                        LET k == TemplateParameters(hist.before,
                                     Nx(hist.before, Pos(hist.before, id)))
                        IN LeavesOutDefaults(hist.before, id, p, k) =>
                              FilledUp(hist.before, tokens, id, p, k)

\* C9: when simplifyTemplates returns, no use site that came later in the list
\* than one with the wrong number of arguments is left unrewritten although it
\* has the right number of arguments for the declaration.
C9_LaterUseSitesRewritten ==
    Returns => \A b \in hist.broke : \A id \in b.later :
                  ~InstantiateMatch(tokens, Pos(tokens, id), b.name, b.arity, "")

C18_RescansAtMost100 == hist.event.op = "use" => hist.event.rescans <= MaxRecursive

\* C18: in one call of simplifyTemplateInstantiations the list is scanned
\* again by simplifyCalculations at most 101 times; the loop over the use
\* sites goes on only while recursiveCount is at most 100; the pass in which
\* it gets greater scans the list again and does nothing else: no token is
\* made, no name is put in the set, the list of use sites is left as it is,
\* and the loop is left.
C18_RescanCap ==
    [][/\ pc' = "loop" => call'.recursiveCount <= MaxRecursive
       /\ hist'.event.op = "use" => hist'.event.rescans <= MaxRecursive + 1
       /\ hist'.event.out = "cap" =>
             /\ hist'.event.rescans = MaxRecursive + 1
             /\ tokens' = SimplifyCalculations(tokens)
             /\ nextId' = nextId
             /\ expandedtemplates' = expandedtemplates
             /\ templateInstantiations' = templateInstantiations
             /\ pc' # "loop"]_vars

\* the loop over the use sites was left because recursiveCount got greater
\* than 100
C18_Witness == hist.event.out = "cap"

\* C12 as stated: when getTemplateDeclarations has returned, the flag
\* codeWithTemplates is set if the list holds a "template" followed by "<"
\* anywhere, in the body of a namespace and in a declaration that ends in ";"
\* too.
C12_FlagSetForAnyTemplate ==
    hist.event.op = "getTemplateDeclarations" =>
        ((\E i \in 1..Len(tokens) : MatchSeq(tokens, i, <<"template", "<">>))
            => codeWithTemplates)

\* a template declaration without body starts at cursor i: the first ";" from
\* there comes before any "{"
IsForwardDeclaration(s, i) ==
    MatchSeq(s, i, <<"template", "<">>) /\ Str(s, FirstOf(s, i, {";", "{"})) = ";"

\* C13 as stated: a forward declaration of a template is never put in the list
\* of declarations, and when simplifyTemplates has returned no forward
\* declaration is left in the list: its "template < .. >" is stripped.
C13_ForwardDeclarationStripped ==
    /\ \A k \in 1..Len(hist.decls) :
          ~IsForwardDeclaration(hist.before, Pos(hist.before, hist.decls[k]))
    /\ Returns => \A i \in 1..Len(tokens) : ~IsForwardDeclaration(tokens, i)

\* the sequence q is found in the sequence t, its elements side by side
Contains(t, q) == \E i \in 0..(Len(t) - Len(q)) : SubSeq(t, i + 1, i + Len(q)) = q

\* the function template and its use of C14, and the call that returned on it
FunctionTemplateInput == CasePrograms[3]
FunctionTemplateDone == Returns /\ run = 1 /\ hist.input = FunctionTemplateInput

\* C14 as stated: the list returned for the function template and its use
\* holds the copy of the function with int for T and, right after it, the
\* rewritten use, and no "template".
C14_CopyThenUse ==
    FunctionTemplateDone =>
        /\ Contains(Lexemes(tokens),
               <<"int", "f<int>", "(", "int", "x", ")", "{", "return", "x", ";", "}",
                 "int", "z", "=", "f<int>", "(", "3", ")", ";">>)
        /\ \A i \in 1..Len(tokens) : tokens[i].str # "template"

\* C14: the list returned for the function template and its use is the
\* rewritten use followed by the copy of the function with int for T, which
\* was added at the back of the list; no "template" is left.
C14_UseThenCopy ==
    FunctionTemplateDone =>
        Lexemes(tokens) =
            <<"int", "z", "=", "f<int>", "(", "3", ")", ";",
              "int", "f<int>", "(", "int", "x", ")", "{", "return", "x", ";", "}">>

\* the call on the function template and its use has returned, after
\* expandTemplate was called for f<int> and the declaration was removed
C14_Witness ==
    /\ FunctionTemplateDone
    /\ hist.expanded = <<"f<int>">>
    /\ hist.removed # {}

\* the class template V used as its own argument, closed by "> >" and by ">>"
NestedUseInputs == {CasePrograms[4], CasePrograms[5]}

\* C15 as stated: when the call on a use of V whose argument is a use of V has
\* returned, expandTemplate was called for V<int> first and for V<V<int>>
\* after it, and the list holds a token V<int> and a token V<V<int>>.
C15_InnerBeforeOuter ==
    (Returns /\ run = 1 /\ hist.input \in NestedUseInputs) =>
        /\ hist.expanded = <<"V<int>", "V<V<int>>">>
        /\ {"V<int>", "V<V<int>>"} \subseteq Range(Lexemes(tokens))

\* C16 as stated: when the call on the class template S and its use with the
\* argument 1 + 2 has returned, the use is the token S<3> and the list holds
\* the copy struct S<3> { }.
C16_ArgumentFolded ==
    (Returns /\ run = 1 /\ hist.input = CasePrograms[6]) =>
        /\ Contains(Lexemes(tokens), <<"S<3>", "s", ";">>)
        /\ Contains(Lexemes(tokens), <<"struct", "S<3>", "{", "}">>)

\* the declarations that getTemplateDeclarations found after the declaration d
LaterDeclarations(d) ==
    {hist.decls[k] : k \in {k \in 1..Len(hist.decls) :
                               \E j \in 1..(k - 1) : hist.decls[j] = d}}

\* C17: simplifyTemplateInstantiations is called for a declaration when it
\* has been called for just the declarations found after it; when the loop
\* over the declarations is left it has been called for all of them; and
\* removeTemplate is called for a declaration only after that, when it has
\* been called for just those of the instantiated declarations that were found
\* after it.
C17_ReverseOrder ==
    [][hist'.event.op # "again" =>
          /\ \A d \in hist'.begun \ hist.begun : hist.begun = LaterDeclarations(d)
          /\ (pc \in {"S4", "loop"} /\ pc' \in {"S5", "done"}) =>
                 hist'.begun = Range(hist.decls)
          /\ \A d \in hist'.removed \ hist.removed :
                 /\ hist.begun = Range(hist.decls)
                 /\ hist.removed = LaterDeclarations(d) \cap Range(templates2)]_vars

\* removeTemplate has been called for two declarations of a list in which
\* three were found
C17_Witness ==
    /\ hist.event.op = "removeTemplate"
    /\ Cardinality(hist.removed) = 2
    /\ Len(hist.decls) = 3

\* removeTemplate, called on its own, has returned from the branch for the
\* token how
RemoveTemplateReturnedAt(how) ==
    pc = "removed" /\ hist.event.op = "removeTemplate" /\ hist.event.how = how

\* the lexemes of the list removeTemplate was called on, without those from
\* the head of the declaration to cursor last
WithoutDeclaration(last) ==
    LET s == Lexemes(hist.before)
        head == Pos(hist.before, hist.event.decl)
    IN SubSeq(s, 1, head - 1) \o SubSeq(s, last + 1, Len(s))

\* the cursor of the "}" that closes the body removeTemplate met
BodyEnd == Link(hist.before, hist.event.at)

\* C19 as stated: when removeTemplate met the "{" of a body it returns true
\* and has deleted the tokens from the head through the matching "}", and the
\* ";" right behind that "}" whenever there is one, and nothing else.
C19_BodyAndSemicolonDeleted ==
    RemoveTemplateReturnedAt("{") =>
        /\ hist.event.out = "true"
        /\ Lexemes(tokens) =
               WithoutDeclaration(IF Str(hist.before, BodyEnd + 1) = ";"
                                  THEN BodyEnd + 1 ELSE BodyEnd)

\* C19: when removeTemplate met the "{" of a body it returns true and has
\* deleted the tokens from the head through the matching "}", and the ";"
\* right behind that "}" unless that ";" is the last token of the list, and
\* nothing else; when the "}" is the last token and fewer than two tokens
\* come before the head, the head is left in the list as a token with the
\* empty text.
C19_BodyDeleted ==
    RemoveTemplateReturnedAt("{") =>
        /\ hist.event.out = "true"
        /\ Lexemes(tokens) =
               WithoutDeclaration(IF Str(hist.before, BodyEnd + 1) = ";" /\
                                     BodyEnd + 1 < Len(hist.before)
                                  THEN BodyEnd + 1 ELSE BodyEnd)
               \o (IF BodyEnd = Len(hist.before) /\
                      Pos(hist.before, hist.event.decl) <= 2
                   THEN <<"">> ELSE <<>>)

\* removeTemplate met the "{" of a body whose "}" is followed by a ";" and a
\* further token, and has returned
C19_Witness ==
    /\ RemoveTemplateReturnedAt("{")
    /\ Str(hist.before, BodyEnd + 1) = ";"
    /\ BodyEnd + 1 < Len(hist.before)

CollapsibleAt(s, i, n) ==
    /\ IsType(s, i) /\ StrAt(s, i, 1) = "<"
    /\ \A k \in 1..n : /\ IsType(s, At(s, i, 2 * k)) \/ IsNumber(s, At(s, i, 2 * k))
                       /\ StrAt(s, i, 2 * k + 1) = (IF k < n THEN "," ELSE ">")
    /\ StrAt(s, i, 2 * n + 2) = "("

\* the text "Type<A1,..,An>" of that occurrence
CollapsedText(s, i, n) ==
    s[i].str \o "<" \o Concat([k \in 1..(2 * n - 1) |-> s[i + 1 + k].str]) \o ">"

\* no pair of parentheses encloses cursor i
OutsideParentheses(s, i) ==
    ~\E j \in 1..(i - 1) : s[j].str = "(" /\ Link(s, j) > i

\* the list has a token with the text x directly before a "("
HasCollapsed(s, x) == \E j \in 1..Len(s) : s[j].str = x /\ StrAt(s, j, 1) = "("

\* the occurrences outside parentheses in the list cleanupAfterSimplify was
\* called on: <<cursor, number of arguments>>
Occurrences ==
    {o \in (1..Len(hist.before)) \X (1..(MaxArgs + 1)) :
        CollapsibleAt(hist.before, o[1], o[2]) /\ OutsideParentheses(hist.before, o[1])}

\* C21 as stated: cleanupAfterSimplify collapses every occurrence of
\* "Type < A1 , .. , An > (" outside parentheses into the one token
\* "Type<A1,..,An>" followed by "(", wherever the occurrence stands.
C21_CollapsedAnywhere ==
    pc = "cleaned" =>
        \A o \in Occurrences : HasCollapsed(tokens, CollapsedText(hist.before, o[1], o[2]))

\* C21, amended: an occurrence outside parentheses is collapsed when it
\* stands at the front of the list or directly behind a ";", and is left as
\* it is anywhere else.
C21_CollapsedAtStatementStart ==
    pc = "cleaned" =>
        \A o \in Occurrences :
            HasCollapsed(tokens, CollapsedText(hist.before, o[1], o[2]))
                <=> AtStatementStart(hist.before, o[1])

\* an occurrence with two arguments behind a ";" was collapsed
C21_Witness ==
    /\ pc = "cleaned"
    /\ \E o \in Occurrences :
          /\ o[1] > 1 /\ o[2] = 2 /\ AtStatementStart(hist.before, o[1])
          /\ HasCollapsed(tokens, CollapsedText(hist.before, o[1], o[2]))

\* cursor k stands between a "(" or "[" behind cursor i and its partner
Enclosed(s, i, k) ==
    \E j \in (i + 1)..(k - 1) : s[j].str \in {"(", "["} /\ Link(s, j) > k

\* the angle brackets open behind the token at cursor k, counted from the "<"
\* at cursor i and outside parentheses and square brackets
AngleDepth(s, i, k) ==
    LET Count(x) == Cardinality({j \in i..k : s[j].str = x /\ ~Enclosed(s, i, j)})
    IN Count("<") - Count(">") - 2 * Count(">>")

\* the token that ends the list opened at cursor i: its closing ">" or ">>",
\* or the first ";", "{" or "}" before it
ListEnd(s, i) ==
    FirstIn({k \in (i + 1)..Len(s) :
                ~Enclosed(s, i, k) /\ (AngleDepth(s, i, k) <= 0 \/ s[k].str \in {";", "{", "}"})})

\* the number of arguments of the list opened at cursor i, 0 when the token
\* is no "<" or the list is empty or has no closing bracket
TopLevelArguments(s, i) ==
    IF Str(s, i) # "<" THEN 0
    ELSE LET e == ListEnd(s, i)
         IN IF e = Null \/ e = i + 1 \/ s[e].str \in {";", "{", "}"} THEN 0
            ELSE 1 + Cardinality({k \in (i + 1)..(e - 1) :
                                     s[k].str = "," /\ ~Enclosed(s, i, k)
                                                    /\ AngleDepth(s, i, k) = 1})

\* C22 as stated: templateParameters returns the number of top-level
\* arguments of the list opened by the token it is given (a "," in a nested
\* list or between linked brackets is not counted, a ">>" closes two levels),
\* and 0 for a null token, a token that is no "<", an empty list and a list
\* that reaches ";", "{", "}" or the end of the list before its closing ">".
C22_CountsTopLevelArguments ==
    pc = "counted" => hist.event.ret = TopLevelArguments(tokens, hist.event.at)

\* the list opened at cursor i has an argument with an operator in it
HasExpression(s, i) ==
    \E k \in (i + 1)..Len(s) : s[k].str = "+" /\ (ListEnd(s, i) = Null \/ k < ListEnd(s, i))

\* the same, for the lists without an argument that is an expression
C22_CountsSimpleArguments ==
    (pc = "counted" /\ ~HasExpression(tokens, hist.event.at)) =>
        hist.event.ret = TopLevelArguments(tokens, hist.event.at)

\* the precedence level of a binary operator of C, the loosest first
Precedence(op) ==
    CASE op = "||" -> 1
      [] op = "&&" -> 2
      [] op = "|" -> 3
      [] op = "^" -> 4
      [] op = "&" -> 5
      [] op \in {"==", "!="} -> 6
      [] op \in {"<", "<=", ">", ">="} -> 7
      [] op \in {"<<", ">>"} -> 8
      [] op \in {"+", "-"} -> 9
      [] OTHER -> 10

Truth(b) == IF b THEN 1 ELSE 0

\* the value of "a op b" in C; ok is false where C leaves it undefined (a
\* division by zero, a shift of or by a negative number) and for a bitwise
\* operation on a negative number
Apply(op, a, b) ==
    IF op \in {"/", "%"} /\ b = 0 THEN [ok |-> FALSE, v |-> 0]
    ELSE IF op \in {"<<", ">>", "&", "|", "^"} /\ (a < 0 \/ b < 0) THEN [ok |-> FALSE, v |-> 0]
    ELSE [ok |-> TRUE,
          v |-> CASE op = "||" -> Truth(a # 0 \/ b # 0)
                  [] op = "&&" -> Truth(a # 0 /\ b # 0)
                  [] op \in {"|", "^", "&"} -> BitOp(a, b, op)
                  [] op = "==" -> Truth(a = b)
                  [] op = "!=" -> Truth(a # b)
                  [] op = "<" -> Truth(a < b)
                  [] op = "<=" -> Truth(a <= b)
                  [] op = ">" -> Truth(a > b)
                  [] op = ">=" -> Truth(a >= b)
                  [] op = "<<" -> a * Pow2(b)
                  [] op = ">>" -> a \div Pow2(b)
                  [] op = "+" -> a + b
                  [] op = "-" -> a - b
                  [] op = "*" -> a * b
                  [] op = "/" -> CDiv(a, b)
                  [] OTHER -> CMod(a, b)]

RECURSIVE Value(_)
\* the value of the expression e = <<n1, op1, n2, .., nk>> under the
\* precedence of C, every binary operator associating to the left
Value(e) ==
    IF Len(e) = 1 THEN [ok |-> TRUE, v |-> StrToInt(e[1])]
    ELSE LET ops == {k \in 1..Len(e) : k % 2 = 0}
             low == CHOOSE p \in 1..10 :
                        /\ \E k \in ops : Precedence(e[k]) = p
                        /\ \A k \in ops : Precedence(e[k]) >= p
             k == LastIn({j \in ops : Precedence(e[j]) = low})
             l == Value(SubSeq(e, 1, k - 1))
             r == Value(SubSeq(e, k + 1, Len(e)))
         IN IF l.ok /\ r.ok THEN Apply(e[k], l.v, r.v) ELSE [ok |-> FALSE, v |-> 0]

\* the expression between "x =" and ";"
Expression(s) == SubSeq(Lexemes(s), 3, Len(s) - 1)

\* C23, first half: a call of simplifyNumericCalculations that folds
\* "n1 op n2" leaves the value of the expression as it was, whatever
\* operators stand to the left of n1 and to the right of n2.
C23_ValuePreserved ==
    (pc = "folded" /\ Value(Expression(hist.before)).ok) =>
        Value(Expression(tokens)) = Value(Expression(hist.before))

\* C23, second half: "n / 0" and "n % 0" are never folded: the operator and
\* the 0 stay in the list, behind a number
C23_DivisionByZeroKept ==
    pc = "folded" =>
        \A i \in 2..(Len(hist.before) - 1) :
            (hist.before[i].str \in {"/", "%"} /\ hist.before[i + 1].str = "0"
                /\ IsNumber(hist.before, i - 1))
            => LET j == Pos(tokens, hist.before[i].id)
               IN j # Null /\ StrAt(tokens, j, 1) = "0" /\ IsNumber(tokens, Pv(tokens, j))

\* C23 as stated: both halves.
C23_FoldPreservesValue == C23_ValuePreserved /\ C23_DivisionByZeroKept

\* the same with the folds of "&" beside a comparison left out
C23_ValuePreservedButAnd ==
    (pc = "folded" /\ Value(Expression(hist.before)).ok
        /\ ~\E i \in 1..Len(hist.before) :
               /\ hist.before[i].str = "&"
               /\ Pos(tokens, hist.before[i].id) = Null
               /\ \/ StrAt(hist.before, i, -2) \in ComparisonOps
                  \/ StrAt(hist.before, i, 2) \in ComparisonOps) =>
        Value(Expression(tokens)) = Value(Expression(hist.before))

RECURSIVE SplitShift(_)
\* the lexemes q with every ">>" written as two ">"
SplitShift(q) ==
    IF q = <<>> THEN <<>>
    ELSE (IF Head(q) = ">>" THEN <<">", ">">> ELSE <<Head(q)>>) \o SplitShift(Tail(q))

\* the elements of a set of numbers in rising order
Sorted(P) ==
    [i \in 1..Cardinality(P) |-> CHOOSE p \in P : Cardinality({q \in P : q < p}) = i - 1]

RECURSIVE Flatten(_)
\* the sequences of q one behind the other
Flatten(q) == IF q = <<>> THEN <<>> ELSE Head(q) \o Flatten(Tail(q))

\* the arguments of the list l = <<"<", .. >> (without ">>"): each from its
\* first token up to the "," or the closing ">" at angle depth 0 behind it
ArgumentsOf(l) ==
    LET Depth(k) == Cardinality({j \in 1..k : l[j] = "<"}) -
                    Cardinality({j \in 1..k : l[j] = ">"})
        close == FirstIn({k \in 1..Len(l) : Depth(k) = 0})
        cuts == Sorted({1, close} \cup {k \in 1..(close - 1) : l[k] = "," /\ Depth(k) = 1})
    IN [i \in 1..(Len(cuts) - 1) |-> SubSeq(l, cuts[i] + 1, cuts[i + 1] - 1)]

\* the copy of the declaration at the head of the list s for the use site at
\* cursor use and the mangled name newName: the tokens behind the header up
\* to the "}" of the body, each parameter replaced by its argument and the
\* name of the template, where no "<" follows, by newName
ExpectedCopy(s, use, newName) ==
    LET gt == FirstIn({k \in 1..Len(s) : s[k].str = ">"})
        formals == Sorted({k \in 3..(gt - 1) : IsName(s, k) /\ StrAt(s, k, 1) \in {",", ">"}})
        name == s[use].str
        actuals == ArgumentsOf(SplitShift(SubSeq(Lexemes(s), use + 1, Len(s))))
        end == Link(s, FirstIn({k \in gt..Len(s) : s[k].str = "{"}))
        Param(k) == {i \in 1..Len(formals) : s[formals[i]].str = s[k].str}
    IN Flatten([j \in 1..(end - gt) |->
                   LET k == gt + j
                   IN IF IsName(s, k) /\ Param(k) # {}
                      THEN actuals[CHOOSE i \in Param(k) : TRUE]
                      ELSE IF s[k].str = name /\ StrAt(s, k, 1) # "<" THEN <<newName>>
                      ELSE <<s[k].str>>])

\* the tokens the call appended
Appended == SubSeq(Lexemes(tokens), Len(hist.before) + 1, Len(tokens))

\* C25 as stated: the copy expandTemplate makes is the declaration with each
\* name equal to the i-th parameter replaced by the whole i-th argument of the
\* use site, a nested list with its closing bracket (also where ">>" closes
\* it), and each token equal to the name of the template that no "<" follows
\* replaced by the mangled name.
C25_ArgumentsCopiedWhole ==
    (pc = "expanded" /\ hist.event.out = "called") =>
        SplitShift(Appended) =
            ExpectedCopy(hist.before, Pos(hist.before, hist.event.use), hist.event.name)

\* the same for the use sites whose arguments end before the ">>"
C25_ArgumentsCopiedButShift ==
    (pc = "expanded" /\ hist.event.out = "called"
        /\ hist.before[Len(hist.before) - 2].str # ">>")  =>
        SplitShift(Appended) =
            ExpectedCopy(hist.before, Pos(hist.before, hist.event.use), hist.event.name)

\* C24 as stated: every copy expandTemplate starts ends at a copied "}" with
\* the bracket stack empty: no assert on the stack fails, the scan does not
\* pass the end of the list, and the last token appended is a "}".
C24_CopyEndsAtBrace ==
    hist.event.op = "use" =>
        /\ hist.event.out \notin {"abort", "endless"}
        /\ (hist.event.out = "expanded" /\ hist.event.copied > 0)
               => Str(tokens, Len(tokens)) = "}"

\* C26 as stated: while the use sites are worked on, every entry of the
\* instantiation list is a token of the list, and the loop over the use
\* sites never reads an entry whose token was deleted.
C26_NoDanglingEntry ==
    /\ pc \in {"defaults", "S4", "loop"} =>
           \A k \in 1..Len(templateInstantiations) :
               Pos(tokens, templateInstantiations[k]) # Null
    /\ hist.event.out # "dangling"

============================================================================
